---------------------------- MODULE Spec2Model ----------------------------
(***************************************************************************)
(* Pool Service Platform: the bearer-token helpers (generateToken,         *)
(* verifyToken), the JSON-file record stores (getServices/saveServices,    *)
(* getUsers/saveUsers) and the HTTP routes of server.js, serviceStore.js   *)
(* and userStore.js.                                                       *)
(*                                                                         *)
(* Strings are TLA+ strings over printable ASCII (plus newline); base64,   *)
(* JSON.stringify and JSON.parse are computed character by character.      *)
(* HMAC-SHA256 is idealised as a collision-free keyed function.            *)
(***************************************************************************)
EXTENDS Integers, Sequences, FiniteSets, TLC

VARIABLES
    clock,        \* Date.now(): milliseconds since the epoch
    JWT_SECRET,   \* the signing secret the running process read at startup
    token,        \* the token string in flight (last issued / received / tampered)
    origin,       \* how `token` came to be: "none", "issued", "received", "tampered"
    issued,       \* bookkeeping of the last generateToken call
    tokenResult,  \* outcome of the last verifyToken call
    files,        \* the file system: path -> file
    storeOp,      \* the last record-store call
    storeResult,  \* outcome of the last record-store call
    request,      \* the last HTTP request handled, and what it found
    response,     \* the response to it
    pending,      \* the request whose body the server is still receiving
    writers,      \* server processes sharing the data directory: their position
    process_env,  \* process.env: the variables the process was started with
    inflight,     \* the requests whose bodies the server is receiving at once
    ledger        \* the services a client expects from the successes it was sent

vars == <<clock, JWT_SECRET, token, origin, issued, tokenResult,
          files, storeOp, storeResult, request, response, pending, writers,
          process_env, inflight, ledger>>

tokenVars == <<clock, JWT_SECRET, token, origin, issued, tokenResult>>
storeVars == <<files, storeOp, storeResult>>
serverVars == <<request, response, pending, writers, process_env, inflight, ledger>>

----------------------------------------------------------------------------
(* Characters and strings *)

\* printable ASCII, codes 32..95 and 97..126 (the lexer of TLA+ has no
\* backquote in strings, and the program's data never holds one)
PrintableLow ==
    " !\"#$%&'()*+,-./0123456789:;<=>?@ABCDEFGHIJKLMNOPQRSTUVWXYZ[\\]^_"

PrintableHigh == "abcdefghijklmnopqrstuvwxyz{|}~"

CharAt(str, i) == SubSeq(str, i, i)

\* ASCII code of a one-character string (Buffer.from(str) on ASCII text)
CharCodes ==
    [c \in {CharAt(PrintableLow, i) : i \in 1..Len(PrintableLow)}
           \cup {CharAt(PrintableHigh, i) : i \in 1..Len(PrintableHigh)}
           \cup {"\n"} |->
        IF c = "\n" THEN 10
        ELSE IF \E i \in 1..Len(PrintableLow) : CharAt(PrintableLow, i) = c
        THEN 31 + (CHOOSE i \in 1..Len(PrintableLow) : CharAt(PrintableLow, i) = c)
        ELSE 96 + (CHOOSE i \in 1..Len(PrintableHigh) : CharAt(PrintableHigh, i) = c)]

CharCode(c) == CharCodes[c]

\* the character of a byte (Buffer.toString() on ASCII bytes); bytes outside
\* the table become "?" (the inputs of the model never produce them)
FromCharCode(b) ==
    IF b = 10 THEN "\n"
    ELSE IF b >= 32 /\ b <= 95 THEN CharAt(PrintableLow, b - 31)
    ELSE IF b >= 97 /\ b <= 126 THEN CharAt(PrintableHigh, b - 96)
    ELSE "?"

Drop(str, n) == SubSeq(str, n + 1, Len(str))
Take(str, n) == SubSeq(str, 1, n)

StartsWith(str, prefix) ==
    Len(str) >= Len(prefix) /\ Take(str, Len(prefix)) = prefix

\* the positions of the character c in str
Positions(str, c) == {i \in 1..Len(str) : CharAt(str, i) = c}

Least(set) == CHOOSE i \in set : \A j \in set : i <= j

\* str.replace(/c/g, to) for a one-character pattern c
RECURSIVE ReplaceAll(_, _, _)
ReplaceAll(str, c, to) ==
    IF Positions(str, c) = {} THEN str
    ELSE LET i == Least(Positions(str, c))
         IN  Take(str, i - 1) \o to \o ReplaceAll(Drop(str, i), c, to)

\* str.split(sep) for a one-character separator: the sequence of the pieces
RECURSIVE Split(_, _)
Split(str, sep) ==
    IF Positions(str, sep) = {} THEN << str >>
    ELSE LET i == Least(Positions(str, sep))
         IN  << Take(str, i - 1) >> \o Split(Drop(str, i), sep)

Digits == "0123456789"

DigitValues == [c \in {CharAt(Digits, i) : i \in 1..10} |->
                   (CHOOSE i \in 1..10 : CharAt(Digits, i) = c) - 1]

IsDigit(c) == c \in DOMAIN DigitValues

DigitValue(c) == DigitValues[c]

\* String(n) for an integer n
RECURSIVE NatToString(_)
NatToString(n) ==
    IF n < 10 THEN CharAt(Digits, n + 1)
    ELSE NatToString(n \div 10) \o CharAt(Digits, (n % 10) + 1)

IntToString(n) == IF n < 0 THEN "-" \o NatToString(0 - n) ELSE NatToString(n)

----------------------------------------------------------------------------
(* base64 *)

Base64Alphabet ==
    "ABCDEFGHIJKLMNOPQRSTUVWXYZabcdefghijklmnopqrstuvwxyz0123456789+/"

Base64Char(n) == CharAt(Base64Alphabet, n + 1)

Base64Values == [c \in {CharAt(Base64Alphabet, i) : i \in 1..64} |->
                    (CHOOSE i \in 1..64 : CharAt(Base64Alphabet, i) = c) - 1]

IsBase64Char(c) == c \in DOMAIN Base64Values

Base64Value(c) == Base64Values[c]

\* Buffer.from(str).toString('base64'): three bytes to four characters,
\* "=" padding on the last group
RECURSIVE Base64Encode(_)
Base64Encode(str) ==
    IF Len(str) = 0 THEN ""
    ELSE LET b1 == CharCode(CharAt(str, 1))
         IN  IF Len(str) = 1
             THEN Base64Char(b1 \div 4) \o Base64Char((b1 % 4) * 16) \o "=="
             ELSE LET b2 == CharCode(CharAt(str, 2))
                  IN  IF Len(str) = 2
                      THEN Base64Char(b1 \div 4)
                           \o Base64Char((b1 % 4) * 16 + b2 \div 16)
                           \o Base64Char((b2 % 16) * 4) \o "="
                      ELSE LET b3 == CharCode(CharAt(str, 3))
                           IN  Base64Char(b1 \div 4)
                               \o Base64Char((b1 % 4) * 16 + b2 \div 16)
                               \o Base64Char((b2 % 16) * 4 + b3 \div 64)
                               \o Base64Char(b3 % 64)
                               \o Base64Encode(Drop(str, 3))

\* the characters of str that carry data: Buffer.from(str, 'base64') stops at
\* the first "=" and skips characters outside the alphabet
RECURSIVE Base64Data(_)
Base64Data(str) ==
    IF Len(str) = 0 THEN ""
    ELSE IF Len(str) = 1
         THEN (IF IsBase64Char(str) THEN str ELSE "")
    ELSE LET h == Len(str) \div 2
         IN  Base64Data(Take(str, h)) \o Base64Data(Drop(str, h))

UpToPadding(str) ==
    IF Positions(str, "=") = {} THEN str
    ELSE Take(str, Least(Positions(str, "=")) - 1)

\* four characters to three bytes; a last group of two or three characters
\* gives one or two bytes
RECURSIVE Base64DecodeData(_)
Base64DecodeData(d) ==
    IF Len(d) < 2 THEN ""
    ELSE LET v1 == Base64Value(CharAt(d, 1))
             v2 == Base64Value(CharAt(d, 2))
             c1 == FromCharCode(v1 * 4 + v2 \div 16)
         IN  IF Len(d) = 2 THEN c1
             ELSE LET v3 == Base64Value(CharAt(d, 3))
                      c2 == FromCharCode((v2 % 16) * 16 + v3 \div 4)
                  IN  IF Len(d) = 3 THEN c1 \o c2
                      ELSE LET v4 == Base64Value(CharAt(d, 4))
                               c3 == FromCharCode((v3 % 4) * 64 + v4)
                           IN  c1 \o c2 \o c3 \o Base64DecodeData(Drop(d, 4))

\* Buffer.from(str, 'base64').toString()
Base64Decode(str) == Base64DecodeData(Base64Data(UpToPadding(str)))

base64urlEncode(str) ==
    ReplaceAll(ReplaceAll(ReplaceAll(Base64Encode(str), "=", ""), "+", "-"), "/", "_")

RECURSIVE PadToFour(_)
PadToFour(str) == IF Len(str) % 4 # 0 THEN PadToFour(str \o "=") ELSE str

base64urlDecode(str) ==
    Base64Decode(PadToFour(ReplaceAll(ReplaceAll(str, "-", "+"), "_", "/")))

----------------------------------------------------------------------------
(* JavaScript values: every value is a record of the same shape, so that   *)
(* values of different types compare unequal instead of failing.           *)
(*   t    : "undefined", "null", "bool", "num", "str", "arr", "obj"        *)
(*   n    : the number (1/0 for a boolean), s : the string                 *)
(*   kids : the elements or members in order, each [k |-> key, v |-> value]*)

JUndefined == [t |-> "undefined", n |-> 0, s |-> "", kids |-> <<>>]
JNull      == [t |-> "null", n |-> 0, s |-> "", kids |-> <<>>]
JBool(b)   == [t |-> "bool", n |-> IF b THEN 1 ELSE 0, s |-> "", kids |-> <<>>]
JNum(n)    == [t |-> "num", n |-> n, s |-> "", kids |-> <<>>]
JStr(str)  == [t |-> "str", n |-> 0, s |-> str, kids |-> <<>>]
Member(key, value) == [k |-> key, v |-> value]
JArr(values) ==
    [t |-> "arr", n |-> 0, s |-> "",
     kids |-> [i \in 1..Len(values) |-> Member("", values[i])]]
JObj(members) == [t |-> "obj", n |-> 0, s |-> "", kids |-> members]

EmptyArray == JArr(<<>>)

IsArray(value) == value.t = "arr"
IsObject(value) == value.t = "obj"

\* the elements of an array value, as a sequence of values
Elements(arr) == [i \in 1..Len(arr.kids) |-> arr.kids[i].v]

HasKey(obj, key) == \E i \in 1..Len(obj.kids) : obj.kids[i].k = key

KeyIndex(obj, key) == CHOOSE i \in 1..Len(obj.kids) : obj.kids[i].k = key

Keys(obj) == {obj.kids[i].k : i \in 1..Len(obj.kids)}

\* value[key] where the access does not throw: own property of an object,
\* undefined on everything else
Get(value, key) ==
    IF value.t = "obj" /\ HasKey(value, key)
    THEN value.kids[KeyIndex(value, key)].v
    ELSE JUndefined

\* value.key throws a TypeError on null and undefined
GetThrows(value) == value.t \in {"null", "undefined"}

\* obj[key] = v: an existing property keeps its place, a new one goes last
Set(obj, key, value) ==
    IF HasKey(obj, key)
    THEN [obj EXCEPT !.kids[KeyIndex(obj, key)] = Member(key, value)]
    ELSE [obj EXCEPT !.kids = Append(@, Member(key, value))]

\* ToBoolean
Truthy(value) ==
    CASE value.t \in {"undefined", "null"} -> FALSE
      [] value.t \in {"bool", "num"} -> value.n # 0
      [] value.t = "str" -> value.s # ""
      [] OTHER -> TRUE

\* a || b
Or(a, b) == IF Truthy(a) THEN a ELSE b

IsNumeric(str) ==
    /\ Len(str) > 0
    /\ LET body == IF CharAt(str, 1) = "-" THEN Drop(str, 1) ELSE str
       IN  Len(body) > 0 /\ \A i \in 1..Len(body) : IsDigit(CharAt(body, i))

RECURSIVE DigitsToNat(_)
DigitsToNat(str) ==
    IF Len(str) = 0 THEN 0
    ELSE DigitsToNat(Take(str, Len(str) - 1)) * 10 + DigitValue(CharAt(str, Len(str)))

StringToInt(str) ==
    IF CharAt(str, 1) = "-" THEN 0 - DigitsToNat(Drop(str, 1)) ELSE DigitsToNat(str)

\* n > value for a number n: ToNumber(value), and NaN compares false
GreaterThan(n, value) ==
    CASE value.t \in {"num", "bool"} -> n > value.n
      [] value.t = "null" -> n > 0
      [] value.t = "str" /\ value.s = "" -> n > 0
      [] value.t = "str" /\ IsNumeric(value.s) -> n > StringToInt(value.s)
      [] OTHER -> FALSE

\* {...obj}: the own properties of an object; nothing for other values
\* (a string would spread its characters: no caller passes one)
Spread(value) == IF value.t = "obj" THEN JObj(value.kids) ELSE JObj(<<>>)

----------------------------------------------------------------------------
(* JSON.stringify *)

\* a JSON string literal: backslash, quote and newline are escaped
Quote(str) ==
    "\"" \o ReplaceAll(ReplaceAll(ReplaceAll(str, "\\", "\\\\"), "\"", "\\\""),
                       "\n", "\\n") \o "\""

Blank == "                                        "

\* n spaces
Spaces(n) == Take(Blank, n)

\* the members JSON.stringify writes: undefined members of an object are left out
RECURSIVE Written(_)
Written(kids) ==
    IF Len(kids) = 0 THEN <<>>
    ELSE IF Head(kids).v.t = "undefined" THEN Written(Tail(kids))
    ELSE <<Head(kids)>> \o Written(Tail(kids))

\* JSON.stringify(value, null, gap) at nesting depth `depth`; gap = 0 is the
\* compact form JSON.stringify(value)
RECURSIVE Stringify(_, _, _)
RECURSIVE StringifyKids(_, _, _, _, _)
StringifyKids(kids, isObj, gap, depth, i) ==
    LET key == IF isObj
               THEN Quote(kids[i].k) \o (IF gap = 0 THEN ":" ELSE ": ")
               ELSE ""
        sep == IF i = Len(kids) THEN ""
               ELSE IF gap = 0 THEN "," ELSE ",\n" \o Spaces(gap * depth)
    IN  IF i > Len(kids) THEN ""
        ELSE key \o Stringify(kids[i].v, gap, depth) \o sep
             \o StringifyKids(kids, isObj, gap, depth, i + 1)

Stringify(value, gap, depth) ==
    CASE value.t \in {"null", "undefined"} -> "null"
      [] value.t = "bool" -> IF value.n = 1 THEN "true" ELSE "false"
      [] value.t = "num" -> IntToString(value.n)
      [] value.t = "str" -> Quote(value.s)
      [] OTHER ->
          LET isObj == value.t = "obj"
              kids == IF isObj THEN Written(value.kids) ELSE value.kids
              open == IF isObj THEN "{" ELSE "["
              close == IF isObj THEN "}" ELSE "]"
          IN  IF Len(kids) = 0 THEN open \o close
              ELSE IF gap = 0
              THEN open \o StringifyKids(kids, isObj, gap, depth + 1, 1) \o close
              ELSE open \o "\n" \o Spaces(gap * (depth + 1))
                   \o StringifyKids(kids, isObj, gap, depth + 1, 1)
                   \o "\n" \o Spaces(gap * depth) \o close

JSON_stringify(value) == Stringify(value, 0, 0)

JSON_stringify_indent(value, gap) == Stringify(value, gap, 0)

----------------------------------------------------------------------------
(* JSON.parse: a recursive-descent parser. A parse step returns             *)
(* [ok, val, rest]; ok = FALSE is the SyntaxError. Numbers are integers and *)
(* the string escapes are \" \\ \/ \n (the texts of the model hold no       *)
(* fractions, exponents or other escapes).                                  *)

ParseFail == [ok |-> FALSE, val |-> JNull, rest |-> ""]
Parsed(value, rest) == [ok |-> TRUE, val |-> value, rest |-> rest]

IsSpace(c) == c = " " \/ c = "\n"

RECURSIVE SkipSpace(_)
SkipSpace(str) ==
    IF Len(str) > 0 /\ IsSpace(CharAt(str, 1)) THEN SkipSpace(Drop(str, 1)) ELSE str

\* the characters of a string literal after its opening quote, taken a run
\* of plain characters at a time
RECURSIVE ParseChars(_, _)
ParseChars(str, acc) ==
    LET stops == {i \in 1..Len(str) : CharAt(str, i) \in {"\"", "\\", "\n"}}
        at == Least(stops)
        c == CharAt(str, at)
        e == CharAt(str, at + 1)
        plain == acc \o Take(str, at - 1)
    IN  IF stops = {} THEN ParseFail
        ELSE IF c = "\"" THEN Parsed(JStr(plain), Drop(str, at))
        ELSE IF c = "\n" THEN ParseFail
        ELSE IF Len(str) < at + 1 THEN ParseFail
        ELSE IF e = "\"" \/ e = "\\" \/ e = "/"
        THEN ParseChars(Drop(str, at + 1), plain \o e)
        ELSE IF e = "n" THEN ParseChars(Drop(str, at + 1), plain \o "\n")
        ELSE ParseFail

\* the number of digits str starts with
RECURSIVE DigitRun(_)
DigitRun(str) ==
    IF Len(str) > 0 /\ IsDigit(CharAt(str, 1)) THEN 1 + DigitRun(Drop(str, 1)) ELSE 0

\* -? (0 | [1-9][0-9]*)
ParseNumber(str) ==
    LET neg == CharAt(str, 1) = "-"
        body == IF neg THEN Drop(str, 1) ELSE str
        len == DigitRun(body)
        n == DigitsToNat(Take(body, len))
    IN  IF len = 0 THEN ParseFail
        ELSE IF len > 1 /\ CharAt(body, 1) = "0" THEN Parsed(JNum(0), Drop(body, 1))
        ELSE Parsed(JNum(IF neg THEN 0 - n ELSE n), Drop(body, len))

RECURSIVE ParseValue(_)
RECURSIVE ParseElements(_, _)
RECURSIVE ParseMembers(_, _)

ParseValue(text) ==
    LET str == SkipSpace(text)
        c == CharAt(str, 1)
    IN  IF Len(str) = 0 THEN ParseFail
        ELSE IF StartsWith(str, "null") THEN Parsed(JNull, Drop(str, 4))
        ELSE IF StartsWith(str, "true") THEN Parsed(JBool(TRUE), Drop(str, 4))
        ELSE IF StartsWith(str, "false") THEN Parsed(JBool(FALSE), Drop(str, 5))
        ELSE IF c = "\"" THEN ParseChars(Drop(str, 1), "")
        ELSE IF c = "-" \/ IsDigit(c) THEN ParseNumber(str)
        ELSE IF c = "["
        THEN LET body == SkipSpace(Drop(str, 1))
             IN  IF StartsWith(body, "]") THEN Parsed(EmptyArray, Drop(body, 1))
                 ELSE ParseElements(body, <<>>)
        ELSE IF c = "{"
        THEN LET body == SkipSpace(Drop(str, 1))
             IN  IF StartsWith(body, "}") THEN Parsed(JObj(<<>>), Drop(body, 1))
                 ELSE ParseMembers(body, JObj(<<>>))
        ELSE ParseFail

\* value ("," value)* "]"
ParseElements(str, acc) ==
    LET r == ParseValue(str)
        after == SkipSpace(r.rest)
    IN  IF ~r.ok THEN ParseFail
        ELSE IF StartsWith(after, ",")
        THEN ParseElements(Drop(after, 1), Append(acc, r.val))
        ELSE IF StartsWith(after, "]")
        THEN Parsed(JArr(Append(acc, r.val)), Drop(after, 1))
        ELSE ParseFail

\* string ":" value ("," string ":" value)* "}"; a repeated key keeps its
\* first place and takes the last value
ParseMembers(text, acc) ==
    LET str == SkipSpace(text)
        key == IF StartsWith(str, "\"") THEN ParseChars(Drop(str, 1), "") ELSE ParseFail
        colon == SkipSpace(key.rest)
        r == IF key.ok /\ StartsWith(colon, ":")
             THEN ParseValue(Drop(colon, 1)) ELSE ParseFail
        after == SkipSpace(r.rest)
    IN  IF ~r.ok THEN ParseFail
        ELSE IF StartsWith(after, ",")
        THEN ParseMembers(Drop(after, 1), Set(acc, key.val.s, r.val))
        ELSE IF StartsWith(after, "}")
        THEN Parsed(Set(acc, key.val.s, r.val), Drop(after, 1))
        ELSE ParseFail

\* JSON.parse(text): [ok |-> TRUE, val |-> value], or ok = FALSE for the
\* SyntaxError it throws
JSON_parse(text) ==
    LET r == ParseValue(text)
    IN  IF r.ok /\ SkipSpace(r.rest) = ""
        THEN [ok |-> TRUE, val |-> r.val]
        ELSE [ok |-> FALSE, val |-> JNull]

----------------------------------------------------------------------------
(* The token helpers of server.js *)

DefaultSecret == "change_this_secret"

\* const JWT_SECRET = process.env.JWT_SECRET || 'change_this_secret';
\* env is the value of process.env.JWT_SECRET, "" when it is unset or empty
LoadSecret(env) == IF env # "" THEN env ELSE DefaultSecret

\* a digest that does not use the key
KeylessDigest(secret, data) == Base64Encode(data)

\* crypto.createHmac('sha256', secret).update(data).digest('base64'),
\* idealised: a keyed function without collisions (distinct (secret, data)
\* give distinct digests), here the base64 text of secret and data
HmacSha256Base64(secret, data) == Base64Encode(secret \o "|" \o data)

\* signature.replace(/=/g, '').replace(/\+/g, '-').replace(/\//g, '_')
UrlSafe(signature) ==
    ReplaceAll(ReplaceAll(ReplaceAll(signature, "=", ""), "+", "-"), "/", "_")

Header == JObj(<<Member("alg", JStr("HS256")), Member("typ", JStr("JWT"))>>)

TokenTtl == 3600

\* Math.floor(Date.now() / 1000)
Seconds(ms) == ms \div 1000

\* the token over an already serialised payload: header, payload and
\* signature segments joined by "."
SignedToken(payloadJson, secret) ==
    LET headerEncoded == base64urlEncode(JSON_stringify(Header))
        payloadEncoded == base64urlEncode(payloadJson)
        data == headerEncoded \o "." \o payloadEncoded
        signature == HmacSha256Base64(secret, data)
        signatureEncoded == UrlSafe(signature)
    IN  data \o "." \o signatureEncoded

\* { iat: issuedAt, exp: expiry, ...payload }: the caller's claims written last
SpreadLast(payload, now) ==
    LET issuedAt == Seconds(now)
        expiry == Or(Get(payload, "exp"), JNum(issuedAt + TokenTtl))
        own == Spread(payload)
        stamped == Set(Set(own, "iat", JNum(issuedAt)), "exp", expiry)
    IN  [stamped EXCEPT !.kids =
            [i \in 1..Len(@) |->
                IF HasKey(own, @[i].k) THEN Member(@[i].k, Get(own, @[i].k)) ELSE @[i]]]

\* { ...payload, iat: issuedAt, exp: expiry }
TokenPayload(payload, now) ==
    LET issuedAt == Seconds(now)
        expiry == Or(Get(payload, "exp"), JNum(issuedAt + TokenTtl))
    IN  Set(Set(Spread(payload), "iat", JNum(issuedAt)), "exp", expiry)

generateToken(payload, now, secret) ==
    SignedToken(JSON_stringify(TokenPayload(payload, now)), secret)

Returned(value) == [status |-> "returned", value |-> value]
Threw == [status |-> "threw", value |-> JUndefined]

\* const v = ...; Body: the value is computed once and named in Body
With(v, Body(_)) == Body(v)

\* the body of the try block of verifyToken
DecodePayload(payloadEncoded, now) ==
    LET payloadJson == base64urlDecode(payloadEncoded)
        parsed == JSON_parse(payloadJson)
        payload == parsed.val
    IN  IF ~parsed.ok THEN Threw
        ELSE IF GetThrows(payload) THEN Threw
        ELSE IF Truthy(Get(payload, "exp")) /\ GreaterThan(Seconds(now), Get(payload, "exp"))
        THEN Returned(JNull)
        ELSE Returned(payload)

\* no try/catch: the exception leaves the function
Rethrow(outcome) == outcome

\* try { ... } catch (err) { return null; }
CatchNull(outcome) == IF outcome.status = "threw" THEN Returned(JNull) ELSE outcome

\* verifyToken without the comparison of the signature
verifyUnsigned(tok, now, secret) ==
    LET parts == Split(tok, ".")
    IN  IF Len(parts) # 3 THEN Returned(JNull)
        ELSE CatchNull(DecodePayload(parts[2], now))

verifyToken(tok, now, secret) ==
    LET parts == Split(tok, ".")
    IN  IF Len(parts) # 3 THEN Returned(JNull)
        ELSE LET headerEncoded == parts[1]
                 payloadEncoded == parts[2]
                 signature == parts[3]
                 data == headerEncoded \o "." \o payloadEncoded
                 expectedSig == HmacSha256Base64(secret, data)
                 expectedEncoded == UrlSafe(expectedSig)
             IN  IF expectedEncoded # signature THEN Returned(JNull)
                 ELSE CatchNull(DecodePayload(payloadEncoded, now))

----------------------------------------------------------------------------
(* Bounds and inputs of the token specifications *)

StartClock == 2000         \* Date.now() when the server starts, in ms
MaxAdvance == 1500         \* how far the clock runs past a whole expiry period
HalfSecond == 500
MaxTamperLen == 400        \* no token of the model is longer

TtlMs == TokenTtl * 1000

ClockSteps == {HalfSecond, 2 * HalfSecond, TtlMs}

\* values of process.env.JWT_SECRET at startup ("" = unset)
EnvSecrets == {"", "k1", "k2"}

User(name) == Member("username", JStr(name))

\* the claim maps handed to generateToken at second `sec`; the login handler
\* passes { username }
ClaimMaps(sec) ==
    { JObj(<<User("al")>>),
      JObj(<<User("al"), Member("exp", JNum(sec - 1))>>),
      JObj(<<User("al"), Member("exp", JNum(sec))>>),
      JObj(<<Member("exp", JNum(sec + 1)), User("al")>>),
      JObj(<<User("al"), Member("exp", JNum(0))>>),
      JObj(<<Member("iat", JNum(7)), User("al")>>),
      JObj(<<User("a\"b"), Member("role", JNum(-1))>>) }

\* payload texts a holder of a secret may sign
PayloadTexts ==
    { "{\"exp\":0}", "{\"username\":\"al\"}", "{\"username\":\"al\",\"exp\":2}",
      "{\"exp\":3603}", "null", "5", "false", "[1]", "not json", "" }

\* strings that are no tokens of three segments, or carry no valid signature
Malformed == { "", "abc", "a.b", "a.b.c", "a.b.c.d", "..", "." }

\* the strings a client may send as bearer token
ReceivedStrings ==
    Malformed \cup
    { SignedToken(text, LoadSecret(env)) : text \in PayloadTexts, env \in EnvSecrets }

TamperChars == {"A", "."}

NoIssue == [payload |-> JNull, at |-> 0, secret |-> "", changed |-> 0]
NoResult == [status |-> "none", value |-> JUndefined, now |-> 0]

\* no request was handled, and no second process runs
ServerIdle ==
    /\ request = <<>>
    /\ response = <<>>
    /\ pending = <<>>
    /\ writers = <<>>
    /\ process_env = <<>>
    /\ inflight = <<>>
    /\ ledger = <<>>

\* the record stores are idle in the token specifications
StoreIdle ==
    /\ files = <<>>
    /\ storeOp = <<>>
    /\ storeResult = <<>>
    /\ ServerIdle

----------------------------------------------------------------------------
(* Token actions *)

TokenInit ==
    /\ clock = StartClock
    /\ JWT_SECRET \in {LoadSecret(env) : env \in EnvSecrets}
    /\ token = ""
    /\ origin = "none"
    /\ issued = NoIssue
    /\ tokenResult = NoResult
    /\ StoreIdle

\* generateToken(payload) is called; a behaviour follows one token
Issue(payload) ==
    /\ origin = "none"
    /\ token' = generateToken(payload, clock, JWT_SECRET)
    /\ origin' = "issued"
    /\ issued' = [payload |-> payload, at |-> clock, secret |-> JWT_SECRET,
                  changed |-> 0]
    /\ tokenResult' = NoResult
    /\ UNCHANGED <<clock, JWT_SECRET, storeVars, serverVars>>

\* a client presents an arbitrary string
Receive(str) ==
    /\ origin = "none"
    /\ token' = str
    /\ origin' = "received"
    /\ issued' = NoIssue
    /\ tokenResult' = NoResult
    /\ UNCHANGED <<clock, JWT_SECRET, storeVars, serverVars>>

\* one character of one segment of an issued token is changed
Tamper(i, c) ==
    /\ origin = "issued"
    /\ i <= Len(token)
    /\ CharAt(token, i) # "."
    /\ CharAt(token, i) # c
    /\ token' = Take(token, i - 1) \o c \o Drop(token, i)
    /\ origin' = "tampered"
    /\ issued' = [issued EXCEPT !.changed = i]
    /\ tokenResult' = NoResult
    /\ UNCHANGED <<clock, JWT_SECRET, storeVars, serverVars>>

\* verifyToken(token) is called
Verify ==
    /\ origin # "none"
    /\ tokenResult.status = "none"
    /\ tokenResult' = verifyToken(token, clock, JWT_SECRET) @@ [now |-> clock]
    /\ UNCHANGED <<clock, JWT_SECRET, token, origin, issued, storeVars, serverVars>>

\* time passes
Tick(d) ==
    /\ (clock - StartClock + d) % TtlMs <= MaxAdvance
    /\ clock - StartClock + d <= TtlMs + MaxAdvance
    /\ clock' = clock + d
    /\ tokenResult' = NoResult
    /\ UNCHANGED <<JWT_SECRET, token, origin, issued, storeVars, serverVars>>

\* the process is restarted with another JWT_SECRET in its environment
Restart(env) ==
    /\ LoadSecret(env) # JWT_SECRET
    /\ JWT_SECRET' = LoadSecret(env)
    /\ tokenResult' = NoResult
    /\ UNCHANGED <<clock, token, origin, issued, storeVars, serverVars>>

TokenNext ==
    \/ \E payload \in ClaimMaps(Seconds(clock)) : Issue(payload)
    \/ \E str \in ReceivedStrings : Receive(str)
    \/ Verify
    \/ \E d \in ClockSteps : Tick(d)
    \/ \E env \in EnvSecrets : Restart(env)

SpecToken == TokenInit /\ [][TokenNext]_vars

TamperNext ==
    \/ \E payload \in ClaimMaps(Seconds(clock)) : Issue(payload)
    \/ \E i \in 1..MaxTamperLen, c \in TamperChars : Tamper(i, c)
    \/ Verify

SpecTamper == TokenInit /\ [][TamperNext]_vars

----------------------------------------------------------------------------
(* The record stores: serviceStore.js and userStore.js *)

servicesFile == "services.json"
usersFile == "users.json"

Paths == {servicesFile, usersFile}

\* a file of the file system: kind "missing" (ENOENT), "unreadable" (the read
\* fails, e.g. EACCES) or "file" with its text
Missing == [kind |-> "missing", text |-> ""]
Unreadable == [kind |-> "unreadable", text |-> ""]
File(text) == [kind |-> "file", text |-> text]

\* fs.readFileSync(path, 'utf8'): the text, or the error thrown
readFileSync(fs, path) ==
    IF fs[path].kind = "file"
    THEN [status |-> "returned", text |-> fs[path].text]
    ELSE [status |-> "threw", text |-> ""]

\* the file opened with flag 'a': the text is appended to what the file holds
appendFileSync(fs, path, text, fault) ==
    CASE fault = "none" ->
             [fs |-> [fs EXCEPT ![path] = File(fs[path].text \o text)],
              status |-> "returned"]
      [] fault = "open" -> [fs |-> fs, status |-> "threw"]
      [] OTHER -> [fs |-> fs, status |-> "threw"]

\* fs.writeFileSync(path, text): the file system after the call and whether
\* the call threw. fault is what the disk does: "none"; "open" (the file
\* cannot be opened for writing: nothing changes); "write" (the file was
\* opened, so truncated, and the write of the data failed)
writeFileSync(fs, path, text, fault) ==
    CASE fault = "none" ->
             [fs |-> [fs EXCEPT ![path] = File(text)], status |-> "returned"]
      [] fault = "open" -> [fs |-> fs, status |-> "threw"]
      [] OTHER -> [fs |-> [fs EXCEPT ![path] = File("")], status |-> "threw"]

\* the body of the try block of getServices / getUsers
ReadJson(fs, path) ==
    With(readFileSync(fs, path), LAMBDA data :
      IF data.status = "threw" THEN Threw
      ELSE With(JSON_parse(data.text), LAMBDA parsed :
             IF ~parsed.ok THEN Threw ELSE Returned(parsed.val)))

\* no try/catch: the read error or SyntaxError leaves the function
Uncaught(outcome) == outcome

\* try { ... } catch (err) { return []; }
CatchEmpty(outcome) ==
    IF outcome.status = "threw" THEN Returned(EmptyArray) ELSE outcome

getServices(fs) == CatchEmpty(ReadJson(fs, servicesFile))

getUsers(fs) == CatchEmpty(ReadJson(fs, usersFile))

\* the write inside try { ... } catch (err) { }: the error is swallowed
WriteQuietly(fs, path, records, fault) ==
    [fs |-> writeFileSync(fs, path, JSON_stringify_indent(records, 2), fault).fs,
     status |-> "returned"]

\* fs.writeFileSync(file, JSON.stringify(records, null, 2)); nothing is caught
WriteJson(fs, path, records, fault) ==
    writeFileSync(fs, path, JSON_stringify_indent(records, 2), fault)

\* a save that reads the file again and appends the last record of
\* `services` to what it holds
saveMerged(fs, services, fault) ==
    LET held == Elements(getServices(fs).value)
        mine == Elements(services)
    IN  WriteJson(fs, servicesFile,
                  JArr(IF mine = <<>> THEN held ELSE Append(held, mine[Len(mine)])),
                  fault)

\* a save that writes the last record of `users` alone
saveLastUser(fs, users, fault) ==
    LET mine == Elements(users)
    IN  WriteJson(fs, usersFile,
                  JArr(IF mine = <<>> THEN mine ELSE <<mine[Len(mine)]>>), fault)

saveServices(fs, services, fault) == WriteJson(fs, servicesFile, services, fault)

saveUsers(fs, users, fault) == WriteJson(fs, usersFile, users, fault)

----------------------------------------------------------------------------
(* Inputs of the store specification *)

Service(name, id) ==
    JObj(<<Member("service", JStr(name)), Member("date", JStr("2024-01-01")),
           Member("id", JNum(id))>>)

UserRecord(name, hash) ==
    JObj(<<Member("username", JStr(name)), Member("passwordHash", JStr(hash))>>)

\* the sequences of records handed to saveServices / saveUsers
RecordSeqs ==
    { EmptyArray,
      JArr(<<Service("Clean", 1), Service("Say \"hi\"", 2)>>),
      JArr(<<Service("Say \"hi\"", 2), Service("Clean", 1)>>),
      JArr(<<UserRecord("alice", "a1b2"), JNum(5),
             JObj(<<Member("tags", JArr(<<JStr("x"), JNull>>))>>)>>) }

\* what a file may hold when the program did not write it
FoundFiles ==
    { Missing, Unreadable,
      File(""), File("not json"), File("[{\"id\":1},"),
      File("[{\"id\":1}]"),
      File("{}"), File("null"), File("5") }

Faults == {"none", "open", "write"}

NoCall == [op |-> "none", path |-> "", arg |-> JUndefined, ok |-> FALSE]

\* storeOp: the last call (op, path, arg), the file a load found, and the
\* call a load came after
NoStoreOp == [op |-> "none", path |-> "", arg |-> JUndefined,
              found |-> Missing, after |-> NoCall]

TokenIdle ==
    /\ clock = StartClock
    /\ JWT_SECRET = DefaultSecret
    /\ token = ""
    /\ origin = "none"
    /\ issued = NoIssue
    /\ tokenResult = NoResult

----------------------------------------------------------------------------
(* Store actions: a behaviour follows the two files through any number of  *)
(* saves up to one load.                                                    *)

StoreInit ==
    /\ files \in [Paths -> FoundFiles]
    /\ storeOp = NoStoreOp
    /\ storeResult = Returned(JUndefined)
    /\ TokenIdle
    /\ ServerIdle

LastCall ==
    [op |-> storeOp.op, path |-> storeOp.path, arg |-> storeOp.arg,
     ok |-> storeResult.status = "returned"]

Loaded(path) ==
    [op |-> "load", path |-> path, arg |-> JUndefined,
     found |-> files[path], after |-> LastCall]

Saved(path, records) ==
    [op |-> "save", path |-> path, arg |-> records,
     found |-> Missing, after |-> NoCall]

LoadServices ==
    /\ storeOp.op # "load"
    /\ storeResult' = getServices(files)
    /\ storeOp' = Loaded(servicesFile)
    /\ UNCHANGED <<files, tokenVars, serverVars>>

LoadUsers ==
    /\ storeOp.op # "load"
    /\ storeResult' = getUsers(files)
    /\ storeOp' = Loaded(usersFile)
    /\ UNCHANGED <<files, tokenVars, serverVars>>

SaveServices(records, fault) ==
    /\ storeOp.op # "load"
    /\ LET written == saveServices(files, records, fault)
       IN  /\ files' = written.fs
           /\ storeResult' = [status |-> written.status, value |-> JUndefined]
    /\ storeOp' = Saved(servicesFile, records)
    /\ UNCHANGED <<tokenVars, serverVars>>

SaveUsers(records, fault) ==
    /\ storeOp.op # "load"
    /\ LET written == saveUsers(files, records, fault)
       IN  /\ files' = written.fs
           /\ storeResult' = [status |-> written.status, value |-> JUndefined]
    /\ storeOp' = Saved(usersFile, records)
    /\ UNCHANGED <<tokenVars, serverVars>>

StoreNext ==
    \/ LoadServices
    \/ LoadUsers
    \/ \E records \in RecordSeqs, fault \in Faults : SaveServices(records, fault)
    \/ \E records \in RecordSeqs, fault \in Faults : SaveUsers(records, fault)

SpecStore == StoreInit /\ [][StoreNext]_vars

----------------------------------------------------------------------------
(* Properties of the token helpers *)

Verified == tokenResult.status # "none"

Accepted == tokenResult.status = "returned" /\ tokenResult.value # JNull

Rejected == tokenResult.status = "returned" /\ tokenResult.value = JNull

VerifiedAtSecond == Seconds(tokenResult.now)

\* payload.exp || issuedAt + 60 * 60: the expiry generateToken injects for a
\* claim map handed over at time at
InjectedExpiry(payload, at) ==
    IF Truthy(Get(payload, "exp")) THEN Get(payload, "exp")
    ELSE JNum(Seconds(at) + TokenTtl)

\* the three segments of the token in flight, when it has three
Segments == Split(token, ".")

CorrectlySigned ==
    /\ Len(Segments) = 3
    /\ UrlSafe(HmacSha256Base64(JWT_SECRET, Segments[1] \o "." \o Segments[2]))
           = Segments[3]

DecodedPayload == JSON_parse(base64urlDecode(Segments[2]))

\* C1: round trip. A token issued for the claim map c and verified under the
\* same secret before its expiry yields a map with exactly the keys of c plus
\* iat and exp, the claims of c unchanged, iat the second of issue and exp the
\* injected expiry.
C1_RoundTrip ==
    ( /\ origin = "issued"
      /\ Verified
      /\ issued.secret = JWT_SECRET
      /\ ~GreaterThan(VerifiedAtSecond, InjectedExpiry(issued.payload, issued.at)) )
    => /\ tokenResult.status = "returned"
       /\ IsObject(tokenResult.value)
       /\ Keys(tokenResult.value) = Keys(issued.payload) \cup {"iat", "exp"}
       /\ \A key \in Keys(issued.payload) \ {"iat", "exp"} :
              Get(tokenResult.value, key) = Get(issued.payload, key)
       /\ Get(tokenResult.value, "iat") = JNum(Seconds(issued.at))
       /\ Get(tokenResult.value, "exp") = InjectedExpiry(issued.payload, issued.at)

\* a claim map that carries its own iat went through issue and verify
C1_Witness ==
    /\ origin = "issued"
    /\ Accepted
    /\ issued.secret = JWT_SECRET
    /\ HasKey(issued.payload, "iat")
    /\ tokenResult.now > issued.at

\* C2: tamper detection. An issued token with one character of one segment
\* changed is rejected with null by verifyToken under the issuing secret.
C2_TamperRejected ==
    (origin = "tampered" /\ Verified /\ issued.secret = JWT_SECRET) => Rejected

\* the last character of the signature segment was changed and the token verified
C2_Witness ==
    /\ origin = "tampered"
    /\ Rejected
    /\ issued.changed = Len(token)
    /\ Len(Segments) = 3

\* C3: secret binding. A token issued under one secret is rejected with null
\* when verified under a different secret.
C3_SecretBinding ==
    (origin = "issued" /\ Verified /\ issued.secret # JWT_SECRET) => Rejected

\* an unexpired issued token was verified after a restart with another secret
C3_Witness ==
    /\ origin = "issued"
    /\ Rejected
    /\ issued.secret # JWT_SECRET
    /\ ~GreaterThan(VerifiedAtSecond, InjectedExpiry(issued.payload, issued.at))

\* C4: acceptance condition. verifyToken returns the decoded claim map only
\* if the string has three segments, the signature matches, the payload is
\* JSON, and the payload has no exp claim or current time <= exp (for every
\* exp value, 0 included).
C4_AcceptanceCondition ==
    Accepted =>
        /\ CorrectlySigned
        /\ DecodedPayload.ok
        /\ \/ ~HasKey(DecodedPayload.val, "exp")
           \/ /\ Get(DecodedPayload.val, "exp").t = "num"
              /\ VerifiedAtSecond <= Get(DecodedPayload.val, "exp").n

\* C5: expiry over time. A correctly signed token whose payload carries the
\* expiry e is accepted at every second t <= e and rejected at every t > e.
C5_ExpiryOverTime ==
    ( /\ Verified
      /\ CorrectlySigned
      /\ DecodedPayload.ok
      /\ Get(DecodedPayload.val, "exp").t = "num" )
    => (Accepted <=> VerifiedAtSecond <= Get(DecodedPayload.val, "exp").n)

\* C6: expiry override. The exp of an issued token is the exp of the claim
\* map whenever the map has one, and issue time + 3600 only when it has none.
C6_ExpiryOverride ==
    origin = "issued" =>
        Get(DecodedPayload.val, "exp") =
            IF HasKey(issued.payload, "exp") THEN Get(issued.payload, "exp")
            ELSE JNum(Seconds(issued.at) + TokenTtl)

\* the causes for which verifyToken refuses a string
WrongSegmentCount == Len(Segments) # 3

SignatureMismatch == Len(Segments) = 3 /\ ~CorrectlySigned

PayloadNotJson == CorrectlySigned /\ ~DecodedPayload.ok

Expired ==
    /\ CorrectlySigned
    /\ DecodedPayload.ok
    /\ Truthy(Get(DecodedPayload.val, "exp"))
    /\ GreaterThan(VerifiedAtSecond, Get(DecodedPayload.val, "exp"))

----------------------------------------------------------------------------
(* Properties of the record stores *)

LoadedPath == storeOp.path

\* a load came right after a save of the same file that returned
LoadAfterSave ==
    /\ storeOp.op = "load"
    /\ storeOp.after.op = "save"
    /\ storeOp.after.path = storeOp.path
    /\ storeOp.after.ok

\* C8: round trip. A load right after a save of the records R returns R in
\* the same order, and the file holds exactly R.
C8_StoreRoundTrip ==
    LoadAfterSave =>
        /\ storeResult = Returned(storeOp.after.arg)
        /\ files[LoadedPath].kind = "file"
        /\ JSON_parse(files[LoadedPath].text) = [ok |-> TRUE, val |-> storeOp.after.arg]

\* two records were saved over other contents and loaded back
C8_Witness ==
    /\ LoadAfterSave
    /\ Len(storeOp.after.arg.kids) = 2
    /\ storeResult = Returned(storeOp.after.arg)

\* a file no array of records can be read from
Broken(file) == file.kind # "file" \/ ~JSON_parse(file.text).ok

\* C9: tolerant read. A load of a missing or unreadable file, or of a file
\* that is no JSON, returns the empty sequence, does not throw, and leaves
\* the file as it was.
C9_TolerantRead ==
    (storeOp.op = "load" /\ Broken(storeOp.found)) =>
        /\ storeResult = Returned(EmptyArray)
        /\ files[LoadedPath] = storeOp.found

\* a file holding text that is no JSON was loaded
C9_Witness ==
    /\ storeOp.op = "load"
    /\ storeOp.found = File("not json")
    /\ storeResult = Returned(EmptyArray)

\* C10: the loaded collection is a sequence whatever the file holds.
C10_AlwaysSequence ==
    storeOp.op = "load" =>
        /\ storeResult.status = "returned"
        /\ IsArray(storeResult.value)


----------------------------------------------------------------------------
(* The HTTP routes of server.js. A handler is an operator from the request *)
(* and the file system to an outcome: the file system after it, and the    *)
(* response, or an exception that left it uncaught.                        *)

\* Number(idStr) of a path segment: the empty string is 0, a decimal integer
\* is its value, and the other segments of the model are NaN
NaN == [t |-> "nan", n |-> 0, s |-> "", kids |-> <<>>]

Number(str) ==
    IF str = "" THEN JNum(0)
    ELSE IF IsNumeric(str) THEN JNum(StringToInt(str))
    ELSE NaN

\* a === b: primitives by value (NaN equals nothing), objects and arrays by
\* identity, and no two values of the model are the same object
StrictEquals(a, b) ==
    /\ a.t = b.t
    /\ a.t \in {"undefined", "null", "bool", "num", "str"}
    /\ a = b

\* arr.findIndex(e => e[key] === value), also the index find and some stop
\* at: the 0-based index or -1; throws when arr has no findIndex (it is no
\* array) and when it reaches a null element
FindIndex(arr, key, value) ==
    IF ~IsArray(arr) THEN Threw
    ELSE LET elems == Elements(arr)
             stops == {i \in 1..Len(elems) :
                          \/ GetThrows(elems[i])
                          \/ StrictEquals(Get(elems[i], key), value)}
         IN  IF stops = {} THEN Returned(-1)
             ELSE IF GetThrows(elems[Least(stops)]) THEN Threw
             ELSE Returned(Least(stops) - 1)

\* value[key] = v outside strict mode: a property of an object is set,
\* null throws, a primitive drops the assignment, and what an array gets is
\* a property JSON.stringify does not write
AssignProperty(value, key, v) ==
    CASE value.t \in {"null", "undefined"} -> Threw
      [] value.t = "obj" -> Returned(Set(value, key, v))
      [] OTHER -> Returned(value)

\* crypto.createHash('sha256').update(str).digest('hex'), idealised as a
\* collision-free function whose value differs from its argument
Sha256Hex(str) == "sha256(" \o str \o ")"

\* res.writeHead(status, ...); res.end(JSON.stringify(value))
Reply(status, value) == [status |-> status, body |-> JSON_stringify(value)]

Error(status, message) == Reply(status, JObj(<<Member("error", JStr(message))>>))

\* res.writeHead(204); res.end()
NoContent == [status |-> 204, body |-> ""]

\* a handler's outcome
Done(fs, res) == [status |-> "returned", fs |-> fs, res |-> res]

\* the exception left the handler: no response is written
Escaped(fs) == [status |-> "threw", fs |-> fs, res |-> [status |-> 0, body |-> ""]]

\* req.user trusted from the presence of a header
TrustHeader(authHeader, now, secret) ==
    IF authHeader # "" THEN JObj(<<>>) ELSE JUndefined

\* lines 229-237: req.user, undefined unless the Authorization header is
\* "Bearer <token>" and verifyToken(token) is truthy ("" = no header)
Authenticate(authHeader, now, secret) ==
    IF authHeader # "" /\ StartsWith(authHeader, "Bearer ")
    THEN With(verifyToken(Drop(authHeader, Len("Bearer ")), now, secret).value,
              LAMBDA authPayload :
                IF Truthy(authPayload) THEN authPayload ELSE JUndefined)
    ELSE JUndefined

\* try { ... } catch (err) { 400 'Invalid JSON' }: what was written before
\* the throw stays written
CatchInvalidJson(outcome) ==
    IF outcome.status = "threw" THEN Done(outcome.fs, Error(400, "Invalid JSON"))
    ELSE outcome

\* a save, then the response `res` whether or not the save returned
SaveAnd(written, res) == Done(written.fs, res)

\* a save, then the response `res` when the save returned
SaveThen(written, res) ==
    IF written.status = "threw" THEN Escaped(written.fs) ELSE Done(written.fs, res)

\* POST /register, the 'end' callback
registerHandler(body, fs, fault) ==
    CatchInvalidJson(
      With(JSON_parse(body), LAMBDA parsed :
        IF ~parsed.ok \/ GetThrows(parsed.val) THEN Escaped(fs)
        ELSE
      With(Get(parsed.val, "username"), LAMBDA username :
      With(Get(parsed.val, "password"), LAMBDA password :
        IF ~Truthy(username) \/ ~Truthy(password)
        THEN Done(fs, Error(400, "Username and password are required"))
        ELSE
      With(getUsers(fs).value, LAMBDA users :
      With(FindIndex(users, "username", username), LAMBDA found :
        IF found.status = "threw" THEN Escaped(fs)
        ELSE IF found.value # -1 THEN Done(fs, Error(409, "User already exists"))
        ELSE IF password.t # "str" THEN Escaped(fs)
        ELSE SaveThen(
               saveUsers(fs,
                         JArr(Append(Elements(users),
                                JObj(<<Member("username", username),
                                       Member("passwordHash",
                                              JStr(Sha256Hex(password.s)))>>))),
                         fault),
               Reply(201, JObj(<<Member("message", JStr("User registered"))>>)))))))))

\* a login that refuses and empties the accounts
loginAndReset(body, fs, now, secret) ==
    Done([fs EXCEPT ![usersFile] = File("[]")], Error(401, "Invalid credentials"))

\* POST /login, the 'end' callback
loginHandler(body, fs, now, secret) ==
    CatchInvalidJson(
      With(JSON_parse(body), LAMBDA parsed :
        IF ~parsed.ok \/ GetThrows(parsed.val) THEN Escaped(fs)
        ELSE
      With(Get(parsed.val, "username"), LAMBDA username :
      With(Get(parsed.val, "password"), LAMBDA password :
        IF ~Truthy(username) \/ ~Truthy(password)
        THEN Done(fs, Error(400, "Username and password are required"))
        ELSE
      With(getUsers(fs).value, LAMBDA users :
      With(FindIndex(users, "username", username), LAMBDA found :
        IF found.status = "threw" THEN Escaped(fs)
        ELSE IF found.value = -1 THEN Done(fs, Error(401, "Invalid credentials"))
        ELSE
      With(Elements(users)[found.value + 1], LAMBDA user :
        IF ~Truthy(user) THEN Done(fs, Error(401, "Invalid credentials"))
        ELSE IF password.t # "str" THEN Escaped(fs)
        ELSE IF StrictEquals(Get(user, "passwordHash"), JStr(Sha256Hex(password.s)))
        THEN Done(fs, Reply(200,
                 JObj(<<Member("message", JStr("Login successful")),
                        Member("token",
                               JStr(generateToken(JObj(<<Member("username", username)>>),
                                                  now, secret)))>>)))
        ELSE Done(fs, Error(401, "Invalid credentials")))))))))

Unauthorized == Error(401, "Unauthorized")

ServiceNotFound == Error(404, "Service not found")

\* pathname.split('/')[2]
IdSegment(pathname) == Split(pathname, "/")[3]

\* GET /services/:id
getServiceHandler(user, pathname, fs) ==
    IF ~Truthy(user) THEN Done(fs, Unauthorized)
    ELSE
      With(getServices(fs).value, LAMBDA services :
      With(FindIndex(services, "id", Number(IdSegment(pathname))), LAMBDA found :
        IF found.status = "threw" THEN Escaped(fs)
        ELSE IF found.value = -1 THEN Done(fs, ServiceNotFound)
        ELSE
      With(Elements(services)[found.value + 1], LAMBDA svc :
        IF Truthy(svc) THEN Done(fs, Reply(200, svc))
        ELSE Done(fs, ServiceNotFound))))

\* a reading answered from an empty array, not from the file
listNothing(user, fs) ==
    IF ~Truthy(user) THEN Done(fs, Unauthorized)
    ELSE Done(fs, Reply(200, EmptyArray))

\* GET /services
listServicesHandler(user, fs) ==
    IF ~Truthy(user) THEN Done(fs, Unauthorized)
    ELSE Done(fs, Reply(200, getServices(fs).value))

\* the record put in an array of its own, not pushed on what was loaded
PushedAlone(services, record) ==
    IF IsArray(services) THEN Returned(JArr(<<record>>)) ELSE Threw

\* services.push(record) on what getServices returned
Pushed(services, record) ==
    IF IsArray(services) THEN Returned(JArr(Append(Elements(services), record)))
    ELSE Threw

\* newService.id = Date.now()
AssignNewId(parsed, now) == AssignProperty(parsed, "id", JNum(now))

\* POST /services, the 'end' callback
createServiceHandler(body, fs, now, fault) ==
    CatchInvalidJson(
      With(JSON_parse(body), LAMBDA parsed :
        IF ~parsed.ok THEN Escaped(fs)
        ELSE
      With(AssignNewId(parsed.val, now), LAMBDA newService :
        IF newService.status = "threw" THEN Escaped(fs)
        ELSE
      With(Pushed(getServices(fs).value, newService.value), LAMBDA pushed :
        IF pushed.status = "threw" THEN Escaped(fs)
        ELSE SaveThen(saveServices(fs, pushed.value, fault),
                      Reply(201, newService.value))))))

\* updatedService.id = id
PreserveId(parsed, id) == AssignProperty(parsed, "id", id)

\* an update that stores the record as a new one when no record has the id
updateOrCreate(pathname, body, fs, fault) ==
    CatchInvalidJson(
      LET parsed == JSON_parse(body)
          id == Number(IdSegment(pathname))
          services == getServices(fs).value
          found == FindIndex(services, "id", id)
          updatedService == PreserveId(parsed.val, id)
      IN  IF ~parsed.ok \/ found.status = "threw" \/ updatedService.status = "threw"
          THEN Escaped(fs)
          ELSE SaveThen(
                 saveServices(fs,
                              JArr(IF found.value = -1
                                   THEN Append(Elements(services), updatedService.value)
                                   ELSE [Elements(services) EXCEPT
                                            ![found.value + 1] = updatedService.value]),
                              fault),
                 Reply(200, updatedService.value)))

\* PUT /services/:id, the 'end' callback; id was read from the path on arrival
updateServiceHandler(pathname, body, fs, fault) ==
    CatchInvalidJson(
      With(JSON_parse(body), LAMBDA parsed :
        IF ~parsed.ok THEN Escaped(fs)
        ELSE
      With(Number(IdSegment(pathname)), LAMBDA id :
      With(getServices(fs).value, LAMBDA services :
      With(FindIndex(services, "id", id), LAMBDA found :
        IF found.status = "threw" THEN Escaped(fs)
        ELSE IF found.value = -1 THEN Done(fs, ServiceNotFound)
        ELSE
      With(PreserveId(parsed.val, id), LAMBDA updatedService :
        IF updatedService.status = "threw" THEN Escaped(fs)
        ELSE SaveThen(
               saveServices(fs,
                            JArr([Elements(services) EXCEPT
                                     ![found.value + 1] = updatedService.value]),
                            fault),
               Reply(200, updatedService.value))))))))

\* services.splice(index): the records from the index on are removed
SpliceFrom(elems, index) ==
    LET at == IF index < 0 THEN Len(elems) + index + 1 ELSE index + 1
    IN  IF at < 1 \/ at > Len(elems) THEN elems ELSE SubSeq(elems, 1, at - 1)

\* services.splice(index, 1): a negative index counts from the end
Splice(elems, index) ==
    LET at == IF index < 0 THEN Len(elems) + index + 1 ELSE index + 1
    IN  IF at < 1 \/ at > Len(elems) THEN elems
        ELSE SubSeq(elems, 1, at - 1) \o SubSeq(elems, at + 1, Len(elems))

\* the handler without its index === -1 test
deleteUnchecked(user, pathname, fs, fault) ==
    LET services == getServices(fs).value
        found == FindIndex(services, "id", Number(IdSegment(pathname)))
    IN  IF ~Truthy(user) THEN Done(fs, Unauthorized)
        ELSE IF found.status = "threw" THEN Escaped(fs)
        ELSE SaveThen(saveServices(fs, JArr(Splice(Elements(services), found.value)),
                                   fault), NoContent)

\* DELETE /services/:id
deleteServiceHandler(user, pathname, fs, fault) ==
    IF ~Truthy(user) THEN Done(fs, Unauthorized)
    ELSE
      With(getServices(fs).value, LAMBDA services :
      With(FindIndex(services, "id", Number(IdSegment(pathname))), LAMBDA found :
        IF found.status = "threw" THEN Escaped(fs)
        ELSE IF found.value = -1 THEN Done(fs, ServiceNotFound)
        ELSE SaveThen(saveServices(fs, JArr(Splice(Elements(services), found.value)),
                                   fault), NoContent)))

\* the routes that read the request body before they answer
\* a request is [method, pathname, authorization, body]
WaitsForBody(req) ==
    \/ req.method = "POST" /\ req.pathname \in {"/register", "/login", "/services"}
    \/ req.method = "PUT" /\ StartsWith(req.pathname, "/services/")

\* the listener returned with its 'end' callback registered: no response yet
Waiting(fs) == [status |-> "pending", fs |-> fs, res |-> [status |-> 0, body |-> ""]]

\* the routes of the request listener in their order, for a request whose
\* req.user is `user`
Route(req, user, fs, fault) ==
    LET method == req.method
        pathname == req.pathname
    IN  CASE method = "OPTIONS" -> Done(fs, NoContent)
          [] method = "POST" /\ pathname \in {"/register", "/login"} ->
                 Waiting(fs)
          [] method = "GET" /\ pathname = "/" ->
                 Done(fs, [status |-> 200,
                           body |-> "Welcome to the Pool Service Platform!"])
          [] method = "GET" /\ pathname = "/status" ->
                 Done(fs, Reply(200, JObj(<<Member("status", JStr("ok"))>>)))
          [] method = "GET" /\ StartsWith(pathname, "/services/") ->
                 getServiceHandler(user, pathname, fs)
          [] method = "GET" /\ pathname = "/services" ->
                 listServicesHandler(user, fs)
          [] WaitsForBody(req) ->
                 IF ~Truthy(user) THEN Done(fs, Unauthorized) ELSE Waiting(fs)
          [] method = "DELETE" /\ StartsWith(pathname, "/services/") ->
                 deleteServiceHandler(user, pathname, fs, fault)
          [] OTHER -> Done(fs, [status |-> 404, body |-> "Not Found"])

\* the request listener of http.createServer, run when a request arrives:
\* req.user is set, then the routes are tried
Listener(req, fs, now, secret, fault) ==
    Route(req, Authenticate(req.authorization, now, secret), fs, fault)

\* an 'end' callback that verifies the token of a service request again
OnEndVerified(req, fs, now, secret, fault) ==
    IF req.pathname \notin {"/register", "/login"}
         /\ ~Truthy(Authenticate(req.authorization, now, secret))
    THEN Done(fs, Unauthorized)
    ELSE CASE req.pathname = "/register" -> registerHandler(req.body, fs, fault)
           [] req.pathname = "/login" -> loginHandler(req.body, fs, now, secret)
           [] req.pathname = "/services" ->
                  createServiceHandler(req.body, fs, now, fault)
           [] OTHER -> updateServiceHandler(req.pathname, req.body, fs, fault)

\* the 'end' callback of the request, run when its body is complete
OnEnd(req, fs, now, secret, fault) ==
    CASE req.pathname = "/register" -> registerHandler(req.body, fs, fault)
      [] req.pathname = "/login" -> loginHandler(req.body, fs, now, secret)
      [] req.pathname = "/services" -> createServiceHandler(req.body, fs, now, fault)
      [] OTHER -> updateServiceHandler(req.pathname, req.body, fs, fault)

----------------------------------------------------------------------------
(* Requests and the server's steps. The listener runs when a request       *)
(* arrives; for a route that reads the body, the 'end' callback runs       *)
(* later, and other requests and clock ticks may come in between. The      *)
(* last exchange is kept until the client has received the response.       *)

MaxMillis == 1             \* how many milliseconds the clock advances
MaxUsers == 2              \* registrations are sent while fewer users are stored
MaxServices == 2           \* creations are sent while fewer services are stored

Req(method, pathname, authorization, body) ==
    [method |-> method, pathname |-> pathname,
     authorization |-> authorization, body |-> body]

NoRequest == Req("", "", "", "")

NoExchange == [req |-> NoRequest, before |-> <<>>, at |-> 0]

NoResponse == [status |-> 0, body |-> "", escaped |-> FALSE]

\* the length of the collection a file holds
Stored(fs, path) ==
    With(CatchEmpty(ReadJson(fs, path)).value, LAMBDA loaded :
      IF IsArray(loaded) THEN Len(loaded.kids) ELSE 0)

\* the client keeps the token of a successful login
ClientToken(res, kept) ==
    IF res.status # 200 THEN kept
    ELSE With(JSON_parse(res.body), LAMBDA parsed :
         With(Get(parsed.val, "token"), LAMBDA sent :
           IF parsed.ok /\ sent.t = "str" THEN sent.s ELSE kept))

\* the response is written and the exchange recorded
Answered(req, out) ==
    /\ files' = out.fs
    /\ request' = [req |-> req, before |-> files, at |-> clock]
    /\ response' = [status |-> out.res.status, body |-> out.res.body,
                    escaped |-> out.status = "threw"]

\* a request arrives and the listener runs
ArriveAs(req, user, fault) ==
    /\ request = NoExchange
    /\ req.pathname = "/register" => Stored(files, usersFile) < MaxUsers
    /\ req.method = "POST" /\ req.pathname = "/services"
           => Stored(files, servicesFile) < MaxServices
    /\ \E out \in {Route(req, user, files, fault)} :
           IF out.status = "pending"
           THEN /\ pending = NoRequest
                /\ pending' = req
                /\ UNCHANGED <<files, request, response>>
           ELSE /\ Answered(req, out)
                /\ UNCHANGED pending
    /\ UNCHANGED <<tokenVars, storeOp, storeResult, writers, process_env, inflight, ledger>>

Arrive(req, fault) ==
    ArriveAs(req, Authenticate(req.authorization, clock, JWT_SECRET), fault)

\* the body of the pending request is complete and its 'end' callback runs
End(fault) ==
    /\ request = NoExchange
    /\ pending # NoRequest
    /\ Answered(pending, OnEnd(pending, files, clock, JWT_SECRET, fault))
    /\ pending' = NoRequest
    /\ UNCHANGED <<tokenVars, storeOp, storeResult, writers, process_env, inflight, ledger>>

\* the client receives the response, and keeps the token of a login
Deliver ==
    /\ request # NoExchange
    /\ token' = IF request.req.pathname = "/login"
                THEN ClientToken(response, token) ELSE token
    /\ request' = NoExchange
    /\ response' = NoResponse
    /\ UNCHANGED <<clock, JWT_SECRET, origin, issued, tokenResult,
                   storeVars, pending, writers, process_env, inflight, ledger>>

\* a millisecond passes
Millisecond ==
    /\ clock < StartClock + MaxMillis
    /\ clock' = clock + 1
    /\ UNCHANGED <<JWT_SECRET, token, origin, issued, tokenResult,
                   storeVars, serverVars>>

\* the server starts in an empty data directory
ServerInit ==
    /\ clock = StartClock
    /\ JWT_SECRET = DefaultSecret
    /\ token = ""
    /\ origin = "none"
    /\ issued = NoIssue
    /\ tokenResult = NoResult
    /\ files = [path \in Paths |-> Missing]
    /\ storeOp = NoStoreOp
    /\ storeResult = Returned(JUndefined)
    /\ request = NoExchange
    /\ response = NoResponse
    /\ pending = NoRequest
    /\ writers = <<>>
    /\ process_env = <<>>
    /\ inflight = <<>>
    /\ ledger = <<>>

(* Accounts: POST /register and POST /login *)

Credentials(username, password) ==
    JSON_stringify(JObj(<<Member("username", username), Member("password", password)>>))

\* the bodies sent to /register
RegisterBodies ==
    { Credentials(JStr("alice"), JStr("pw1")),
      Credentials(JStr("alice"), JStr("pw2")),
      Credentials(JStr("Alice"), JStr("pw1")),
      Credentials(JArr(<<JStr("alice")>>), JStr("pw1")),
      Credentials(JStr("bob"), JNum(5)),
      "{\"username\":\"bob\"}", "null", "not json", "" }

\* the bodies sent to /login
LoginBodies ==
    { Credentials(JStr("alice"), JStr("pw1")),
      Credentials(JStr("alice"), JStr("pw2")),
      Credentials(JStr("alice"), JStr(Sha256Hex("pw1"))),
      Credentials(JStr("Alice"), JStr("pw1")),
      Credentials(JArr(<<JStr("alice")>>), JStr("pw1")),
      Credentials(JStr("alice"), JNum(5)),
      "{\"password\":\"pw1\"}", "null", "5" }

AccountRequests ==
    {Req("POST", "/register", "", body) : body \in RegisterBodies}
    \cup {Req("POST", "/login", "", body) : body \in LoginBodies}

AccountsNext ==
    \/ \E req \in AccountRequests : Arrive(req, "none")
    \/ End("none")
    \/ Deliver

SpecAccounts == ServerInit /\ [][AccountsNext]_vars

----------------------------------------------------------------------------
(* Services: the /services routes, used by a client that registered and    *)
(* logged in when the server started                                       *)

\* the header the logged-in client sends
Bearer == "Bearer " \o token

\* a token the server signed whose exp (second 1) has passed
ExpiredToken ==
    SignedToken(JSON_stringify(JObj(<<User("alice"), Member("iat", JNum(0)),
                                      Member("exp", JNum(1))>>)), DefaultSecret)

\* no header, a token whose signature does not match, a token without the
\* Bearer scheme, an expired token
BadHeaders == {"", Bearer \o "x", token, "Bearer " \o ExpiredToken}

\* the paths of the ids the clock can assign
AssignedPaths == {"/services/" \o IntToString(StartClock + k) : k \in 0..MaxMillis}

\* and those of an id no record has (7, the id a client sends) and of no number
ServicePaths == AssignedPaths \cup {"/services/7", "/services/abc"}

CreateBodies ==
    { "{\"service\":\"Clean\",\"date\":\"2024-01-01\"}",
      "{\"service\":\"Clean\",\"date\":\"2024-01-01\",\"id\":7}",
      "5", "null", "not json" }

UpdateBodies ==
    { "{\"service\":\"Vacuum\"}", "{\"service\":\"Vacuum\",\"id\":7}",
      "5", "null" }

\* one request to each service route, sent with the header `authorization`
OnePerRoute(authorization) ==
    { Req("GET", "/services", authorization, ""),
      Req("GET", "/services/" \o IntToString(StartClock), authorization, ""),
      Req("POST", "/services", authorization, "{\"service\":\"Clean\"}"),
      Req("PUT", "/services/" \o IntToString(StartClock), authorization,
          "{\"service\":\"Vacuum\"}"),
      Req("DELETE", "/services/" \o IntToString(StartClock), authorization, "") }

ServiceRequests ==
    {Req("GET", "/services", Bearer, "")}
    \cup {Req(method, pathname, Bearer, "") :
             method \in {"GET", "DELETE"}, pathname \in ServicePaths}
    \cup {Req("POST", "/services", Bearer, body) : body \in CreateBodies}
    \cup {Req("PUT", pathname, Bearer, body) :
             pathname \in AssignedPaths, body \in UpdateBodies}
    \cup {Req("PUT", pathname, Bearer, "{\"service\":\"Vacuum\"}") :
             pathname \in ServicePaths}
    \cup UNION {OnePerRoute(authorization) : authorization \in BadHeaders}
    \cup {Req("GET", "/status", "", ""), Req("GET", "/", "", ""),
          Req("OPTIONS", "/services", "", ""), Req("PATCH", "/services", Bearer, "")}
    \cup {Req("POST", pathname, "", Credentials(JStr("alice"), JStr("pw1"))) :
             pathname \in {"/register", "/login"}}

ServicesInit ==
    \E registered \in {registerHandler(Credentials(JStr("alice"), JStr("pw1")),
                                        [path \in Paths |-> Missing], "none").fs} :
        /\ clock = StartClock
        /\ JWT_SECRET = DefaultSecret
        /\ token = ClientToken(loginHandler(Credentials(JStr("alice"), JStr("pw1")),
                                            registered, StartClock, DefaultSecret).res, "")
        /\ origin = "none"
        /\ issued = NoIssue
        /\ tokenResult = NoResult
        /\ files = registered
        /\ storeOp = NoStoreOp
        /\ storeResult = Returned(JUndefined)
        /\ request = NoExchange
        /\ response = NoResponse
        /\ pending = NoRequest
        /\ writers = <<>>
        /\ process_env = <<>>
        /\ inflight = <<>>
        /\ ledger = <<>>

\* the record an update names, and for a create the record stored first
RacedPath(req) ==
    IF req.method = "PUT" THEN req.pathname
    ELSE IF req.pathname = "/services" THEN "/services/" \o IntToString(StartClock)
    ELSE ""

\* while a body is being received, the request that can change what its
\* callback finds is the client's deletion of the record the callback is
\* about; the clock is read between exchanges
ServicesNext ==
    \/ /\ request = NoExchange
       /\ \E authorization \in {req.authorization : req \in ServiceRequests} :
              /\ pending # NoRequest => authorization = Bearer
              /\ \E user \in {Authenticate(authorization, clock, JWT_SECRET)},
                    req \in {r \in ServiceRequests : r.authorization = authorization} :
                      /\ pending # NoRequest =>
                             req.method = "DELETE" /\ req.pathname = RacedPath(pending)
                      /\ ArriveAs(req, user, "none")
    \/ End("none")
    \/ Deliver
    \/ request = NoExchange /\ Millisecond

SpecServices == ServicesInit /\ [][ServicesNext]_vars

----------------------------------------------------------------------------
(* Properties of the accounts routes *)

\* the users collection on disk
Users == Elements(getUsers(files).value)

\* the last request answered was `method pathname`
Handled(method, pathname) ==
    request.req.method = method /\ request.req.pathname = pathname

\* the body of the last request answered, as far as it is JSON
SentBody == JSON_parse(request.req.body).val

SentUsername == Get(SentBody, "username")

SentPassword == Get(SentBody, "password")

\* the stored records whose username is the one sent
StoredAs(username) == {i \in 1..Len(Users) : Get(Users[i], "username") = username}

\* the token of the response, undefined when it carries none
ResponseToken == Get(JSON_parse(response.body).val, "token")

\* C11: register then login. After a successful register of (u, p) the
\* collection holds for u the SHA-256 digest of p and not p; a login for a
\* stored u is answered 200 with a token that verifies and names u when the
\* digest of the password is the stored one, and 401 without a token when it
\* differs.
C11_RegisterThenLogin ==
    /\ (Handled("POST", "/register") /\ response.status = 201) =>
           /\ Len(Users) > 0
           /\ Users[Len(Users)] =
                  JObj(<<Member("username", SentUsername),
                         Member("passwordHash", JStr(Sha256Hex(SentPassword.s)))>>)
           /\ \A i \in 1..Len(Users) :
                  Get(Users[i], "passwordHash") # SentPassword
    /\ ( /\ Handled("POST", "/login")
         /\ SentPassword.t = "str"
         /\ SentPassword.s # ""
         /\ StoredAs(SentUsername) # {} ) =>
           LET user == Users[Least(StoredAs(SentUsername))]
               decoded == verifyToken(ResponseToken.s, request.at, JWT_SECRET)
           IN  IF Get(user, "passwordHash") = JStr(Sha256Hex(SentPassword.s))
               THEN /\ response.status = 200
                    /\ ResponseToken.t = "str"
                    /\ decoded.status = "returned"
                    /\ Get(decoded.value, "username") = SentUsername
               ELSE /\ response.status = 401
                    /\ ResponseToken = JUndefined

\* C16: usernames are unique. No two stored user records share a username,
\* and a registration for a stored username is answered 409 'User already
\* exists' and leaves the users collection as it was.
C16_UniqueUsernames ==
    /\ \A i, j \in 1..Len(Users) :
           Get(Users[i], "username") = Get(Users[j], "username") => i = j
    /\ ( /\ Handled("POST", "/register")
         /\ Truthy(SentPassword)
         /\ \E i \in 1..Len(Elements(getUsers(request.before).value)) :
                Get(Elements(getUsers(request.before).value)[i], "username")
                    = SentUsername ) =>
           /\ response = [status |-> 409,
                          body |-> "{\"error\":\"User already exists\"}",
                          escaped |-> FALSE]
           /\ files = request.before

----------------------------------------------------------------------------
(* Properties of the service routes *)

\* the services collection on disk, and the one the last request found
Services == Elements(getServices(files).value)

ServicesBefore == Elements(getServices(request.before).value)

\* the last request answered was `method` on a path /services/<id>
HandledItem(method) ==
    request.req.method = method /\ StartsWith(request.req.pathname, "/services/")

\* C12: create assigns an id. The record a POST /services answered 201 has
\* appended carries the numeric id the server assigned, whatever JSON value
\* the body was; and every stored record has a numeric id.
C12_CreateAssignsId ==
    /\ (Handled("POST", "/services") /\ response.status = 201) =>
           /\ Len(Services) = Len(ServicesBefore) + 1
           /\ Get(Services[Len(Services)], "id") = JNum(request.at)
    /\ \A i \in 1..Len(Services) : Get(Services[i], "id").t = "num"

\* the positions in `services` of the records the path names
NamedIn(services, pathname) ==
    LET id == Number(IdSegment(pathname))
    IN  {i \in 1..Len(services) : StrictEquals(Get(services[i], "id"), id)}

\* those of the records the last request found
Named == NamedIn(ServicesBefore, request.req.pathname)

\* C13: update preserves the id. After a PUT /services/:id answered 200, the
\* record at the place of the one updated has the id that one had, whatever
\* the body carried.
C13_UpdatePreservesId ==
    (HandledItem("PUT") /\ response.status = 200) =>
        LET before == ServicesBefore
            after == Services
            named == NamedIn(before, request.req.pathname)
        IN  /\ named # {}
            /\ Len(after) = Len(before)
            /\ Get(after[Least(named)], "id") = Get(before[Least(named)], "id")

\* the last request answered carried "Authorization: Bearer <token>" with a
\* token that verified when the request arrived
Authorized ==
    /\ StartsWith(request.req.authorization, "Bearer ")
    /\ Truthy(verifyToken(Drop(request.req.authorization, Len("Bearer ")),
                          request.at, JWT_SECRET).value)

\* the response is `res` and no exception left the handler
Responded(res) ==
    response = [status |-> res.status, body |-> res.body, escaped |-> FALSE]

\* C14: deleting a nonexistent id. An authorised DELETE /services/:id whose
\* id matches no record of a non-empty collection is answered 404 'Service
\* not found' and the files are as the request found them.
C14_DeleteNonexistent ==
    HandledItem("DELETE") =>
        LET before == ServicesBefore
        IN  ( /\ Len(before) > 0
              /\ NamedIn(before, request.req.pathname) = {}
              /\ Authorized ) =>
                /\ Responded(ServiceNotFound)
                /\ files = request.before

\* such a deletion was answered, for an id that is a number and for a path
\* segment that is none
C14_Witness ==
    /\ HandledItem("DELETE") /\ Authorized /\ Named = {}
    /\ Len(ServicesBefore) = MaxServices
    /\ response.status = 404
    /\ request.req.pathname = "/services/7"

\* C15: service ids are unique. No two records of the services collection
\* have the same numeric id.
C15_UniqueIds ==
    \A i, j \in 1..Len(Services) :
        ( /\ Get(Services[i], "id").t = "num"
          /\ Get(Services[i], "id") = Get(Services[j], "id") ) => i = j

\* the five routes of the service API
ServiceRoute(req) ==
    \/ req.method \in {"GET", "POST"} /\ req.pathname = "/services"
    \/ req.method \in {"GET", "PUT", "DELETE"} /\ StartsWith(req.pathname, "/services/")

\* the routes that need no token
OpenRoute(req) ==
    \/ req.method = "POST" /\ req.pathname \in {"/register", "/login"}
    \/ req.method = "GET" /\ req.pathname \in {"/status", "/"}

\* C18: the authentication gate. A request to a service route that carries
\* no "Authorization: Bearer <token>" with a token that verifies is answered
\* 401 'Unauthorized' and nothing else, and the files are as they were when
\* it arrived; a request to /register, /login, /status or / sent without a
\* header is not answered 401 'Unauthorized'.
C18_AuthGate ==
    /\ (request # NoExchange /\ ServiceRoute(request.req) /\ ~Authorized) =>
           /\ Responded(Unauthorized)
           /\ files = request.before
    /\ (request # NoExchange /\ OpenRoute(request.req)
          /\ request.req.authorization = "") =>
           ~Responded(Unauthorized)

\* a deletion of a stored record, sent with a token whose signature does not
\* match, was refused
C18_Witness ==
    /\ HandledItem("DELETE")
    /\ request.req.authorization = Bearer \o "x"
    /\ Named # {}
    /\ Responded(Unauthorized)

\* the body of the last request answered is not a JSON object: it is not
\* JSON at all (the empty body included), or it is null, a number, a string,
\* a boolean or an array
MalformedBody ==
    LET parsed == JSON_parse(request.req.body)
    IN  ~parsed.ok \/ parsed.val.t # "obj"

\* C20: malformed input is rejected, never a fault. A request to one of the
\* four body routes whose body is not a JSON object is answered 400 (401 on
\* a service route without a verifying token), no exception leaves the
\* handler, and the files are as the request found them.
C20_MalformedRejected ==
    (request # NoExchange /\ WaitsForBody(request.req) /\ MalformedBody) =>
        /\ ~response.escaped
        /\ files = request.before
        /\ response.status =
               IF ServiceRoute(request.req) /\ ~Authorized THEN 401 ELSE 400

----------------------------------------------------------------------------
(* Properties of the stores under a failing disk *)

\* C19: a write failure is propagated. A saveServices / saveUsers call whose
\* file write fails throws to its caller; the file is left as the one failed
\* write left it (untouched, or truncated), so nothing was written again.
C19_WriteFailurePropagates ==
    [][\A records \in RecordSeqs, fault \in Faults \ {"none"} :
          (SaveServices(records, fault) \/ SaveUsers(records, fault)) =>
              /\ storeResult'.status = "threw"
              /\ \A path \in Paths : files'[path] \in {files[path], File("")}]_vars

\* a save has thrown after the disk failed in the middle of the write, the
\* file was truncated, and the other file is as found
C19_Witness ==
    /\ storeOp.op = "save"
    /\ storeOp.path = usersFile
    /\ storeOp.arg # EmptyArray
    /\ storeResult.status = "threw"
    /\ files[usersFile] = File("")
    /\ files[servicesFile] # File("")

----------------------------------------------------------------------------
(* Race: two server processes share the data directory (the port is        *)
(* configurable, so a second instance can run beside the first). Inside    *)
(* one process the 'end' callback of POST /services runs to completion;    *)
(* between two processes the file system calls of the callbacks            *)
(* interleave: each process loads (getServices) and later saves            *)
(* (push, saveServices).                                                   *)

Processes == {"A", "B"}

\* a process before its callback runs
WriterIdle == [pc |-> "idle", newService |-> JUndefined, services |-> JUndefined, n |-> 0]

\* the bodies the two processes receive
RaceBodies ==
    { "{\"service\":\"Clean\",\"date\":\"2024-01-01\"}", "{\"service\":\"Vacuum\"}" }

\* what services.json holds when the processes start
RaceFiles ==
    { Missing, File("[]"),
      File(JSON_stringify_indent(JArr(<<JObj(<<Member("service", JStr("Filter")),
                                               Member("id", JNum(7))>>)>>), 2)) }

\* how many processes have saved
SavesDone == Cardinality({w \in Processes : writers[w].pc = "saved"})

\* lines 401-405 in process w: the body is parsed, the id assigned, and the
\* collection loaded
WriterLoad(w, body) ==
    /\ writers[w].pc = "idle"
    /\ writers' = [writers EXCEPT ![w] =
                       [pc |-> "loaded",
                        newService |-> AssignNewId(JSON_parse(body).val, clock).value,
                        services |-> getServices(files).value,
                        n |-> 0]]
    /\ UNCHANGED <<tokenVars, storeVars, request, response, pending,
                   process_env, inflight, ledger>>

\* lines 406-407 in process w: the record is pushed on what was loaded and
\* the array saved
WriterSave(w) ==
    /\ writers[w].pc = "loaded"
    /\ LET pushed == Pushed(writers[w].services, writers[w].newService)
           written == saveServices(files, pushed.value, "none")
       IN  /\ written.status = "returned"
           /\ files' = written.fs
    /\ writers' = [writers EXCEPT ![w].pc = "saved", ![w].n = SavesDone + 1]
    /\ UNCHANGED <<tokenVars, storeOp, storeResult, request, response, pending,
                   process_env, inflight, ledger>>

RaceInit ==
    /\ TokenIdle
    /\ \E found \in RaceFiles :
           files = [path \in Paths |-> IF path = servicesFile THEN found ELSE Missing]
    /\ storeOp = NoStoreOp
    /\ storeResult = Returned(JUndefined)
    /\ request = NoExchange
    /\ response = NoResponse
    /\ pending = NoRequest
    /\ writers = [w \in Processes |-> WriterIdle]
    /\ process_env = <<>>
    /\ inflight = <<>>
    /\ ledger = <<>>

RaceNext ==
    \/ \E w \in Processes, body \in RaceBodies : WriterLoad(w, body)
    \/ \E w \in Processes : WriterSave(w)
    \/ SavesDone = 0 /\ Millisecond

SpecRace == RaceInit /\ [][RaceNext]_vars

\* the process that saved n-th
Saver(n) == CHOOSE w \in Processes : writers[w].n = n

\* C17: the lost update. When both processes have saved and both had loaded
\* the same snapshot, the file holds that snapshot and the record of the
\* process that saved last, and nothing of the other's; when the second had
\* loaded after the first saved, the file holds both records.
C17_LostUpdate ==
    (\A w \in Processes : writers[w].pc = "saved") =>
        LET first == writers[Saver(1)]
            last == writers[Saver(2)]
            stored == Elements(getServices(files).value)
        IN  IF first.services = last.services
            THEN stored = Append(Elements(first.services), last.newService)
            ELSE stored = Append(Append(Elements(first.services), first.newService),
                                 last.newService)

\* both processes loaded the same non-empty snapshot, both saved, and the
\* record the first one saved is not in the file
C17_Witness ==
    /\ \A w \in Processes : writers[w].pc = "saved"
    /\ writers["A"].services = writers["B"].services
    /\ Len(Elements(writers["A"].services)) = 1
    /\ writers["A"].newService # writers["B"].newService
    /\ \A i \in 1..Len(Elements(getServices(files).value)) :
           Elements(getServices(files).value)[i] # writers[Saver(1)].newService

----------------------------------------------------------------------------
(* Configuration: the .env file is read into process.env before the        *)
(* secret and the port are taken from it. process_env holds the variables  *)
(* the process was started with (atStart), those it has now (now, a       *)
(* function on the names that are defined) and how far startup has come.   *)

envPath == ".env"

\* process.env[key]: undefined for a name that is not defined
EnvGet(penv, key) == IF key \in DOMAIN penv THEN JStr(penv[key]) ELSE JUndefined

\* process.env[key] = value
EnvSet(penv, key, value) ==
    [k \in DOMAIN penv \cup {key} |-> IF k = key THEN value ELSE penv[k]]

\* the white space String.prototype.trim removes, as far as the texts of
\* the model hold it
IsBlank(c) == c \in {" ", "\t", "\r", "\n"}

\* line.trim()
RECURSIVE Trim(_)
Trim(str) ==
    IF str = "" THEN ""
    ELSE IF IsBlank(CharAt(str, 1)) THEN Trim(Drop(str, 1))
    ELSE IF IsBlank(CharAt(str, Len(str))) THEN Trim(Take(str, Len(str) - 1))
    ELSE str

\* text.split(/\r?\n/)
SplitLines(text) ==
    LET pieces == Split(text, "\n")
    IN  [i \in 1..Len(pieces) |->
            IF i < Len(pieces) /\ pieces[i] # ""
                 /\ CharAt(pieces[i], Len(pieces[i])) = "\r"
            THEN Take(pieces[i], Len(pieces[i]) - 1)
            ELSE pieces[i]]

\* vals.join('=')
RECURSIVE Join(_, _)
Join(vals, sep) ==
    IF vals = <<>> THEN ""
    ELSE IF Len(vals) = 1 THEN vals[1]
    ELSE vals[1] \o sep \o Join(Tail(vals), sep)

\* lines 74-76: if (!process.env[key]) process.env[key] = value
SetIfFalsy(penv, key, value) ==
    IF ~Truthy(EnvGet(penv, key)) THEN EnvSet(penv, key, value) ELSE penv

\* lines 68-76: the callback of lines.forEach, for one line
LoadLine(penv, line) ==
    LET trimmed == Trim(line)
        parts == Split(trimmed, "=")
        key == parts[1]
        value == Join(Tail(parts), "=")
    IN  IF trimmed = "" \/ StartsWith(trimmed, "#") THEN penv
        ELSE IF key = "" THEN penv
        ELSE SetIfFalsy(penv, key, value)

RECURSIVE LoadLines(_, _)
LoadLines(penv, lines) ==
    IF lines = <<>> THEN penv
    ELSE LoadLines(LoadLine(penv, Head(lines)), Tail(lines))

\* lines 62-80: a missing file is skipped, a read error is caught and logged
LoadEnvFile(penv, fs) ==
    IF fs[envPath].kind = "missing" THEN penv
    ELSE LET data == readFileSync(fs, envPath)
         IN  IF data.status = "threw" THEN penv
             ELSE LoadLines(penv, SplitLines(data.text))

(* Inputs: the environments a process is started in and the .env files it finds *)

NoVars == [k \in {} |-> ""]

Bind(key, value) == [k \in {key} |-> value]

StartEnvs ==
    {NoVars}
    \cup {Bind("JWT_SECRET", v) : v \in {"", "k1"}}
    \cup {Bind("PORT", v) : v \in {"", "8080"}}
    \cup {Bind("JWT_SECRET", v) @@ Bind("PORT", w) : v \in {"", "k1"}, w \in {"", "8080"}}

EnvFiles ==
    { Missing, Unreadable, File(""),
      File("JWT_SECRET=s3\nPORT=4000\n"),
      File("# secrets\r\n\r\nPORT=5000\r\nJWT_SECRET=x\r\n"),
      File("  JWT_SECRET=a=b=  \n\tPORT = 1"),
      File("JWT_SECRET=\nJWT_SECRET=later\nPORT=1\nPORT=2"),
      File("=novalue\nPORT\n#JWT_SECRET=no\nJWT_SECRET") }

BeforeStartup(penv) == [atStart |-> penv, now |-> penv, pc |-> "start"]

EnvInit ==
    /\ TokenIdle
    /\ \E penv \in StartEnvs : process_env = BeforeStartup(penv)
    /\ \E f \in EnvFiles : files = [path \in {envPath} |-> f]
    /\ storeOp = <<>>
    /\ storeResult = <<>>
    /\ request = <<>>
    /\ response = <<>>
    /\ pending = <<>>
    /\ writers = <<>>
    /\ inflight = <<>>
    /\ ledger = <<>>

\* lines 62-80 run when the module is loaded
LoadEnv ==
    /\ process_env.pc = "start"
    /\ process_env' = [process_env EXCEPT !.now = LoadEnvFile(@, files),
                                          !.pc = "loaded"]
    /\ UNCHANGED <<tokenVars, storeVars, request, response, pending, writers,
                   inflight, ledger>>

\* line 85: the secret is taken from process.env
ReadSecret ==
    /\ process_env.pc = "loaded"
    /\ JWT_SECRET' = LoadSecret(IF "JWT_SECRET" \in DOMAIN process_env.now
                                THEN process_env.now["JWT_SECRET"] ELSE "")
    /\ process_env' = [process_env EXCEPT !.pc = "configured"]
    /\ UNCHANGED <<clock, token, origin, issued, tokenResult, storeVars,
                   request, response, pending, writers, inflight, ledger>>

EnvNext == LoadEnv \/ ReadSecret

SpecEnv == EnvInit /\ [][EnvNext]_vars

\* the value the file gives a name: that of the first line that sets the
\* name to a non-empty value, else the empty string when a line names it
FileNames == DOMAIN LoadEnvFile(NoVars, files)

\* C23: configuration precedence. Once the .env file is loaded, every name
\* the process environment defined at startup, the empty string included,
\* has the value it had at startup, and the file's value is used for the
\* names the environment did not define.
C23_EnvPrecedence ==
    process_env.pc # "start" =>
        /\ \A key \in DOMAIN process_env.atStart :
               process_env.now[key] = process_env.atStart[key]
        /\ \A key \in FileNames \ DOMAIN process_env.atStart :
               process_env.now[key] = LoadEnvFile(NoVars, files)[key]
        /\ DOMAIN process_env.now = DOMAIN process_env.atStart \cup FileNames

----------------------------------------------------------------------------
(* Further properties of the accounts routes *)

\* the last login named no stored user, or a stored user with a password
\* that is not the one stored: both fields present, as the handler tests
FailedLogin ==
    /\ Handled("POST", "/login")
    /\ Truthy(SentUsername) /\ Truthy(SentPassword)
    /\ LET users == Users
           stored == {i \in 1..Len(users) : Get(users[i], "username") = SentUsername}
       IN  \/ stored = {}
           \/ SentPassword.t # "str"
           \/ Get(users[Least(stored)], "passwordHash") # JStr(Sha256Hex(SentPassword.s))

\* C29: login failures do not reveal whether a user exists. A login that
\* carries a username and a password and fails, for a username that is not
\* stored or for a stored one with another password, is answered 401
\* 'Invalid credentials' without a token: the two cases get one response.
C29_LoginFailuresAlike ==
    FailedLogin =>
        /\ Responded(Error(401, "Invalid credentials"))
        /\ ResponseToken = JUndefined

----------------------------------------------------------------------------
(* One process, several requests at once. The listener runs when a request *)
(* arrives and, on a body route, registers the 'end' callback; the         *)
(* callbacks of the requests whose bodies are arriving run later, each to  *)
(* completion, in any order. An exception no handler catches ends the      *)
(* process: the file has no 'uncaughtException' handler.                   *)

\* the pages that talk to the server: each awaits the response to its
\* request before it sends the next
Clients == {"page1", "page2"}

\* the record a 201 or 200 response carries
Sent(res) == JSON_parse(res.body).val

\* the first record of `records` whose id is the one the path names: 0 if none
FirstNamed(records, pathname) ==
    LET named == {i \in 1..Len(records) :
                     StrictEquals(Get(records[i], "id"), Number(IdSegment(pathname)))}
    IN  IF named = {} THEN 0 ELSE Least(named)

\* the record a registration stores
Registered(body) ==
    LET sent == JSON_parse(body).val
    IN  JObj(<<Member("username", Get(sent, "username")),
               Member("passwordHash", JStr(Sha256Hex(Get(sent, "password").s)))>>)

\* what a response tells the client about the services: a 201 that a record
\* was added after the others, a 200 to a PUT that the first record with the
\* id was replaced by the one sent back, a 204 to a DELETE that it is gone
ServicesEffect(records, req, res) ==
    LET at == FirstNamed(records, req.pathname)
    IN  CASE req.method = "POST" /\ req.pathname = "/services" /\ res.status = 201 ->
                 Append(records, Sent(res))
          [] req.method = "PUT" /\ StartsWith(req.pathname, "/services/")
               /\ res.status = 200 /\ at > 0 ->
                 [records EXCEPT ![at] = Sent(res)]
          [] req.method = "DELETE" /\ StartsWith(req.pathname, "/services/")
               /\ res.status = 204 /\ at > 0 ->
                 SubSeq(records, 1, at - 1) \o SubSeq(records, at + 1, Len(records))
          [] OTHER -> records

\* and about the users: a 201 to a registration that the user was added
UsersEffect(records, req, res) ==
    IF req.method = "POST" /\ req.pathname = "/register" /\ res.status = 201
    THEN Append(records, Registered(req.body))
    ELSE records

Booked(book, req, res) ==
    [services |-> ServicesEffect(book.services, req, res),
     users |-> UsersEffect(book.users, req, res)]

\* the process has ended on an uncaught exception
Crashed == request # NoExchange /\ response.escaped

\* a request arrives and the listener runs; on a body route the request
\* joins those whose bodies are arriving
Accept(req, user, fault) ==
    /\ ~Crashed
    /\ \E out \in {Route(req, user, files, fault)} :
           IF out.status = "pending"
           THEN /\ Len(inflight) < Cardinality(Clients)
                /\ inflight' = Append(inflight, [req |-> req, arrived |-> clock])
                /\ UNCHANGED <<files, request, response, ledger>>
           ELSE /\ Answered(req, out)
                /\ ledger' = Booked(ledger, req, out.res)
                /\ UNCHANGED inflight
    /\ UNCHANGED <<tokenVars, storeOp, storeResult, pending, writers, process_env>>

\* the body of the i-th of these requests is complete: its 'end' callback runs
Finish(i, fault) ==
    /\ ~Crashed
    /\ i \in 1..Len(inflight)
    /\ \E out \in {OnEnd(inflight[i].req, files, clock, JWT_SECRET, fault)} :
           /\ Answered(inflight[i].req, out)
           /\ ledger' = Booked(ledger, inflight[i].req, out.res)
    /\ inflight' = SubSeq(inflight, 1, i - 1) \o SubSeq(inflight, i + 1, Len(inflight))
    /\ UNCHANGED <<tokenVars, storeOp, storeResult, pending, writers, process_env>>

\* the requests of the clients: creations, updates and deletions of the
\* record created first, readings, and the registration of a second user
ConcurrentRequests ==
    { Req("POST", "/services", Bearer, "{\"service\":\"Clean\"}"),
      Req("PUT", "/services/" \o IntToString(StartClock), Bearer,
          "{\"service\":\"Vacuum\"}"),
      Req("DELETE", "/services/" \o IntToString(StartClock), Bearer, ""),
      Req("GET", "/services", Bearer, ""),
      Req("POST", "/register", "", Credentials(JStr("bob"), JStr("pw2"))) }

\* how many of the requests whose bodies are arriving are for `pathname`
Arriving(pathname) ==
    Cardinality({i \in 1..Len(inflight) : inflight[i].req.pathname = pathname})

\* the clients send a creation or a registration while the collection and
\* the requests on their way leave room for the record
Room(req) ==
    /\ req.method = "POST" /\ req.pathname = "/services" =>
           Stored(files, servicesFile) + Arriving("/services") < MaxServices
    /\ req.pathname = "/register" =>
           Stored(files, usersFile) + Arriving("/register") < MaxUsers

ConcurrentInit ==
    \E registered \in {registerHandler(Credentials(JStr("alice"), JStr("pw1")),
                                        [path \in Paths |-> Missing], "none").fs} :
        /\ clock = StartClock
        /\ JWT_SECRET = DefaultSecret
        /\ token = ClientToken(loginHandler(Credentials(JStr("alice"), JStr("pw1")),
                                            registered, StartClock, DefaultSecret).res, "")
        /\ origin = "none"
        /\ issued = NoIssue
        /\ tokenResult = NoResult
        /\ files = registered
        /\ storeOp = NoStoreOp
        /\ storeResult = Returned(JUndefined)
        /\ request = NoExchange
        /\ response = NoResponse
        /\ pending = NoRequest
        /\ writers = <<>>
        /\ process_env = <<>>
        /\ inflight = <<>>
        /\ ledger = [services |-> Elements(getServices(registered).value),
                     users |-> Elements(getUsers(registered).value)]

ConcurrentNext ==
    \/ \E user \in {Authenticate(Bearer, clock, JWT_SECRET)} :
           \E req \in ConcurrentRequests :
               /\ Room(req)
               /\ Accept(req, IF req.authorization = Bearer THEN user ELSE JUndefined,
                         "none")
    \/ \E i \in 1..Cardinality(Clients) : Finish(i, "none")
    \/ clock = StartClock /\ Millisecond    \* a millisecond passes, once

SpecConcurrent == ConcurrentInit /\ [][ConcurrentNext]_vars

(* Properties of the requests of one process *)

\* the last request answered changed a collection, by what its response says
Mutation ==
    /\ request # NoExchange
    /\ \/ Handled("POST", "/services") /\ response.status = 201
       \/ HandledItem("PUT") /\ response.status = 200
       \/ HandledItem("DELETE") /\ response.status = 204
       \/ Handled("POST", "/register") /\ response.status = 201

\* C21: no state is cached between requests. A GET /services answered 200
\* returns exactly the sequence the successful mutations before it have
\* produced one after the other (the empty one if there was none), and the
\* collections a successful mutation leaves are its effect on the
\* collections the files held when it ran.
C21_NoCachedState ==
    /\ (Handled("GET", "/services") /\ response.status = 200) =>
           response.body = JSON_stringify(JArr(ledger.services))
    /\ Mutation =>
           /\ Services = ServicesEffect(ServicesBefore, request.req, response)
           /\ Users = UsersEffect(Elements(getUsers(request.before).value),
                                  request.req, response)

\* a reading was answered with two records, the second created while the
\* body of another request was arriving
C21_Witness ==
    /\ Handled("GET", "/services")
    /\ response.status = 200
    /\ Len(ledger.services) = MaxServices
    /\ Get(ledger.services[1], "service") = JStr("Vacuum")
    /\ inflight # <<>>

\* C24: mutations of one process are atomic. Whatever the order in which
\* requests arrive and their bodies end, the collections on disk are what
\* the requests answered with a success have made of them one after the
\* other: no success is lost.
C24_NoLostUpdate ==
    /\ Elements(getServices(files).value) = ledger.services
    /\ Elements(getUsers(files).value) = ledger.users

\* a creation and a registration have been answered with a success while
\* the body of an update that arrived before them was still arriving
C24_Witness ==
    /\ Len(inflight) = 1
    /\ inflight[1].req.method = "PUT"
    /\ inflight[1].arrived < request.at
    /\ Handled("POST", "/services")
    /\ response.status = 201
    /\ Len(ledger.services) = MaxServices
    /\ Len(ledger.users) = MaxUsers

----------------------------------------------------------------------------
(* Expiry while a body arrives: the client holds the token of its login,   *)
(* good for an hour, and time passes in steps of a second and of an hour   *)
(* between the arrival of a request and the end of its body.               *)

ExpirySteps == {2 * HalfSecond, TtlMs}

\* the files after the client has created a first record
CreatedFirst(fs) ==
    createServiceHandler("{\"service\":\"Clean\"}", fs, StartClock, "none").fs

ExpiryRequests ==
    { Req("POST", "/services", Bearer, "{\"service\":\"Clean\"}"),
      Req("PUT", "/services/" \o IntToString(StartClock), Bearer,
          "{\"service\":\"Vacuum\"}"),
      Req("GET", "/services", Bearer, "") }

ExpiryInit ==
    \E registered \in {registerHandler(Credentials(JStr("alice"), JStr("pw1")),
                                        [path \in Paths |-> Missing], "none").fs} :
      \E created \in {CreatedFirst(registered)} :
        /\ clock = StartClock
        /\ JWT_SECRET = DefaultSecret
        /\ token = ClientToken(loginHandler(Credentials(JStr("alice"), JStr("pw1")),
                                            registered, StartClock, DefaultSecret).res, "")
        /\ origin = "none"
        /\ issued = NoIssue
        /\ tokenResult = NoResult
        /\ files = created
        /\ storeOp = NoStoreOp
        /\ storeResult = Returned(JUndefined)
        /\ request = NoExchange
        /\ response = NoResponse
        /\ pending = NoRequest
        /\ writers = <<>>
        /\ process_env = <<>>
        /\ inflight = <<>>
        /\ ledger = [services |-> Elements(getServices(created).value),
                     users |-> Elements(getUsers(created).value)]

ExpiryNext ==
    \/ \E user \in {Authenticate(Bearer, clock, JWT_SECRET)} :
           \E req \in ExpiryRequests : Room(req) /\ Accept(req, user, "none")
    \/ \E i \in 1..Cardinality(Clients) : Finish(i, "none")
    \/ \E d \in ExpirySteps : Tick(d)

SpecExpiry == ExpiryInit /\ [][ExpiryNext]_vars

\* the token of the header verifies at time `now`
VerifiesAt(authorization, now) ==
    /\ StartsWith(authorization, "Bearer ")
    /\ Truthy(verifyToken(Drop(authorization, Len("Bearer ")), now, JWT_SECRET).value)

\* C25: authorisation is decided once, on arrival. The 'end' callback of a
\* POST /services or PUT /services/:id runs only for a request whose token
\* verified when it arrived, and it writes its record and answers 201 or
\* 200 whether or not the token still verifies when the body ends; a
\* request to these routes whose token fails on arrival is answered 401
\* there and then and no file changes, and a callback is kept only for a
\* request whose token verifies on arrival.
C25_DecidedOnArrival ==
    [][/\ \A i \in 1..Len(inflight) :
              ( /\ Len(inflight') < Len(inflight)
                /\ inflight[i].req.pathname \notin {"/register", "/login"}
                /\ Finish(i, "none") )
                  => LET after == Elements(getServices(files').value)
                     IN  /\ VerifiesAt(inflight[i].req.authorization, inflight[i].arrived)
                         /\ response'.status \in {200, 201}
                         /\ after = ServicesEffect(Elements(getServices(files).value),
                                                  inflight[i].req, response')
                         /\ \E k \in 1..Len(after) : after[k] = Sent(response')
       /\ \A req \in ExpiryRequests :
              ( /\ WaitsForBody(req)
                /\ response'.status = 401
                /\ request'.req = req
                /\ Accept(req, JUndefined, "none")
                /\ ~VerifiesAt(req.authorization, clock) )
                  => /\ files' = files
                     /\ inflight' = inflight
       /\ \A req \in ExpiryRequests :
              ( /\ WaitsForBody(req)
                /\ Len(inflight') > Len(inflight)
                /\ inflight'[Len(inflight')].req = req )
                  => VerifiesAt(req.authorization, clock)]_vars

\* an update was answered 200 and is in the file, its body having ended
\* when the token had expired
C25_Witness ==
    /\ HandledItem("PUT")
    /\ response.status = 200
    /\ ~VerifiesAt(request.req.authorization, request.at)
    /\ Get(Services[1], "service") = JStr("Vacuum")
    /\ Get(ServicesBefore[1], "service") = JStr("Clean")

----------------------------------------------------------------------------
(* Further properties of the service routes *)

\* `record` is the body sent, whole: for an object its own fields, with the
\* id the server gave it; any other value as it is
BodyAsAWhole(record, sent, id) ==
    IF IsObject(sent)
    THEN /\ IsObject(record)
         /\ Keys(record) = Keys(sent) \cup {"id"}
         /\ \A key \in Keys(sent) \ {"id"} : Get(record, key) = Get(sent, key)
         /\ Get(record, "id") = id
    ELSE record = sent

\* C27: a mutation touches only the record it is about. A POST /services
\* answered 201 leaves the records found and one more after them; a PUT
\* /services/:id answered 200 leaves as many records, with the body as a
\* whole in the place of the first record that had the id and no field of
\* that record kept; a DELETE /services/:id answered 204 leaves the records
\* found without the first that had the id; all others are as found, in
\* their order.
C27_OnlyTheTarget ==
    LET before == ServicesBefore
        after == Services
        at == FirstNamed(before, request.req.pathname)
    IN  /\ (Handled("POST", "/services") /\ response.status = 201) =>
               /\ Len(after) = Len(before) + 1
               /\ SubSeq(after, 1, Len(before)) = before
               /\ BodyAsAWhole(after[Len(after)], SentBody, JNum(request.at))
        /\ (HandledItem("PUT") /\ response.status = 200) =>
               /\ at > 0
               /\ Len(after) = Len(before)
               /\ \A i \in 1..Len(before) : i # at => after[i] = before[i]
               /\ BodyAsAWhole(after[at], SentBody, Get(before[at], "id"))
        /\ (HandledItem("DELETE") /\ response.status = 204) =>
               /\ at > 0
               /\ Len(after) = Len(before) - 1
               /\ \A i \in 1..Len(after) :
                      after[i] = IF i < at THEN before[i] ELSE before[i + 1]

\* the second of two records was updated with a body without the date the
\* record had: the date is gone and the first record is as it was
C27_Witness ==
    /\ HandledItem("PUT")
    /\ response.status = 200
    /\ Len(ServicesBefore) = MaxServices
    /\ FirstNamed(ServicesBefore, request.req.pathname) = MaxServices
    /\ HasKey(ServicesBefore[MaxServices], "date")
    /\ ~HasKey(Services[MaxServices], "date")
    /\ Services[1] = ServicesBefore[1]

\* the body of the last request answered is JSON
WellFormedBody == JSON_parse(request.req.body).ok

\* C28: an update never creates. An authorised PUT /services/:id with a
\* body that is JSON, for an id no stored record has (a path segment that
\* is no number included), is answered 404 'Service not found' and the
\* files are as they were; and the services collection gets longer only in
\* a POST /services.
C28_UpdateNeverCreates ==
    /\ HandledItem("PUT") =>
           LET before == ServicesBefore
           IN  (FirstNamed(before, request.req.pathname) = 0
                  /\ WellFormedBody /\ Authorized) =>
                   /\ Responded(ServiceNotFound)
                   /\ files = request.before
    /\ request # NoExchange =>
           LET before == ServicesBefore
               after == Services
           IN  Len(after) > Len(before) =>
                   /\ Handled("POST", "/services")
                   /\ Len(after) = Len(before) + 1

\* an update for a path segment that is no number, sent with a valid token
\* to a full collection, was answered 404
C28_Witness ==
    /\ HandledItem("PUT")
    /\ request.req.pathname = "/services/abc"
    /\ Authorized
    /\ Len(ServicesBefore) = MaxServices
    /\ response.status = 404
    /\ files = request.before

----------------------------------------------------------------------------
(* A failing disk under the server: a write of a handler may fail when the *)
(* file is opened or after it was opened. One client sends its requests    *)
(* one after the other.                                                    *)

FaultyRequests ==
    {req \in ConcurrentRequests : req.method # "GET"}
    \cup {Req("POST", "/services", Bearer, "not json")}

\* the run stays within the records the bounds allow, counting those a
\* failed write has lost
FaultyRoom(req) ==
    /\ Room(req)
    /\ req.method = "POST" /\ req.pathname = "/services" =>
           Len(ledger.services) + Arriving("/services") < MaxServices
    /\ req.pathname = "/register" =>
           Len(ledger.users) + Arriving("/register") < MaxUsers

FaultyNext ==
    \/ \E user \in {Authenticate(Bearer, clock, JWT_SECRET)} :
           \E req \in FaultyRequests, fault \in Faults :
               /\ inflight = <<>>
               /\ FaultyRoom(req)
               /\ Accept(req, IF req.authorization = Bearer THEN user ELSE JUndefined,
                         fault)
    \/ \E fault \in Faults : Finish(1, fault)

SpecFaults == ConcurrentInit /\ [][FaultyNext]_vars

\* the handler answers with a success when the disk takes the write
Succeeds(out) == out.status = "returned" /\ out.res.status \in {200, 201, 204}

InvalidJson == Error(400, "Invalid JSON")

\* C30: the outcome of a handler whose write fails. When the save of a POST
\* /services, PUT /services/:id or POST /register throws, the callback
\* answers 400 'Invalid JSON' and the process lives on; when the save of a
\* DELETE /services/:id throws, the exception leaves the listener and no
\* response is written.
C30_FailedWrite ==
    [][/\ \A i \in 1..Len(inflight), fault \in Faults \ {"none"} :
              ( /\ Len(inflight') < Len(inflight)
                /\ request'.req = inflight[i].req
                /\ Succeeds(OnEnd(inflight[i].req, files, clock, JWT_SECRET, "none"))
                /\ Finish(i, fault) )
                  => response' = [status |-> InvalidJson.status,
                                  body |-> InvalidJson.body, escaped |-> FALSE]
       /\ \A req \in FaultyRequests, fault \in Faults \ {"none"} :
              ( /\ req.method = "DELETE"
                /\ request'.req = req
                /\ request' # request
                /\ Accept(req, JObj(<<User("alice")>>), fault)
                /\ Succeeds(Route(req, JObj(<<User("alice")>>), files, "none")) )
                  => response' = [status |-> 0, body |-> "", escaped |-> TRUE]]_vars

\* a registration failed on a write that left users.json truncated, and a
\* later creation whose write failed too was answered as one with a body
\* that is no JSON; the server had gone on serving
C30_Witness ==
    /\ Handled("POST", "/services")
    /\ request.req.body # "not json"
    /\ Responded(InvalidJson)
    /\ files[usersFile] = File("")
    /\ files[servicesFile] = File("")
    /\ request.before[servicesFile] # File("")

----------------------------------------------------------------------------
(* Every route of the server, with both files holding records: which       *)
(* exchanges leave the files as they found them.                           *)

FrameRequests ==
    ConcurrentRequests
    \cup { Req("OPTIONS", "/services", "", ""),
           Req("GET", "/services/" \o IntToString(StartClock), Bearer, ""),
           Req("GET", "/services", "", ""),
           Req("DELETE", "/services/" \o IntToString(StartClock), "", ""),
           Req("POST", "/services", Bearer, "not json"),
           Req("POST", "/services", "", "{\"service\":\"Clean\"}"),
           Req("PUT", "/services/" \o IntToString(StartClock), Bearer, "null"),
           Req("POST", "/register", "", Credentials(JStr("alice"), JStr("pw2"))),
           Req("POST", "/register", "", "{\"username\":\"bob\"}"),
           Req("POST", "/login", "", Credentials(JStr("alice"), JStr("pw1"))),
           Req("POST", "/login", "", Credentials(JStr("bob"), JStr("pw1"))),
           Req("POST", "/login", "", "not json") }

FrameNext ==
    \/ \E user \in {Authenticate(Bearer, clock, JWT_SECRET)} :
           \E req \in FrameRequests :
               /\ inflight = <<>>
               /\ Room(req)
               /\ Accept(req, IF req.authorization = Bearer THEN user ELSE JUndefined,
                         "none")
    \/ Finish(1, "none")

SpecFrame == ConcurrentInit /\ [][FrameNext]_vars

\* the exchange is one the collections are to come out of unchanged
NonMutating ==
    \/ request.req.method \in {"GET", "OPTIONS"}
    \/ request.req.pathname = "/login"
    \/ response.status \in {400, 401, 409}

=============================================================================
